---------------------------- MODULE Spec2Model ----------------------------
(***************************************************************************)
(* State-machine model of the CTMS service (tenants, sports, sport configs *)
(* and tenant-sport mappings): the relational store, and one action per    *)
(* HTTP endpoint (router -> service -> crud -> commit).                    *)
(*                                                                         *)
(* Text values (names, codes, search terms) are sequences of characters so *)
(* that upper-casing, isalnum and ILIKE are computed, not assumed.  Python *)
(* None / SQL NULL is <<>> for a text value, "None" for an enum, uuid or   *)
(* email value and NoneInt for an integer.                                 *)
(***************************************************************************)
EXTENDS Integers, Sequences, FiniteSets, TLC

VARIABLES
    tenants,    \* table public.tenants: id -> row
    sports,     \* table public.sports: id -> row
    configs,    \* table public.sports_config: id -> row
    mappings,   \* table public.tenant_sports_mapping: id -> row
    seq,        \* the autoincrement sequence of each table: the next id
    req,        \* the request handled last
    resp,       \* its response
    inflight    \* requests in progress (one session each), by worker

vars == <<tenants, sports, configs, mappings, seq, req, resp, inflight>>
store == <<tenants, sports, configs, mappings>>

---------------------------------------------------------------------------
(* Bounds of the model.                                                    *)
MaxTenants == 2
MaxSports == 2
MaxMappings == 3
MaxConfigs == 2
MaxPage == 2

---------------------------------------------------------------------------
(* Values.                                                                 *)
NoneText == <<>>
None == "None"
NoneInt == -1

Range(f) == {f[i] : i \in DOMAIN f}

Min(a, b) == IF a < b THEN a ELSE b
Max(a, b) == IF a > b THEN a ELSE b

UpperOf == [c \in {"a", "b", "s"} |-> CASE c = "a" -> "A" [] c = "b" -> "B" [] c = "s" -> "S"]
LowerOf == [c \in {"A", "B", "S"} |-> CASE c = "A" -> "a" [] c = "B" -> "b" [] c = "S" -> "s"]
Digits == {"1", "2"}
AlnumChars == DOMAIN UpperOf \cup DOMAIN LowerOf \cup Digits

\* str.upper / str.lower, character by character
upper(v) == [i \in DOMAIN v |-> IF v[i] \in DOMAIN UpperOf THEN UpperOf[v[i]] ELSE v[i]]
lower(v) == [i \in DOMAIN v |-> IF v[i] \in DOMAIN LowerOf THEN LowerOf[v[i]] ELSE v[i]]
\* str.isalnum: non-empty and every character alphanumeric
isalnum(v) == Len(v) > 0 /\ \A i \in DOMAIN v : v[i] \in AlnumChars

\* SQL LIKE: "%" matches any run of characters, "_" any one character
RECURSIVE Like(_, _)
Like(s, p) ==
    IF p = <<>> THEN s = <<>>
    ELSE IF Head(p) = "%" THEN Like(s, Tail(p)) \/ (s # <<>> /\ Like(Tail(s), p))
    ELSE s # <<>> /\ (Head(p) = "_" \/ Head(p) = Head(s)) /\ Like(Tail(s), Tail(p))

\* column.ilike(pattern): LIKE on the lower-cased operands; NULL never matches
ilike(s, p) == s # NoneText /\ Like(lower(s), lower(p))

\* f"%{search}%"
search_pattern(search) == <<"%">> \o search \o <<"%">>

\* uuid4(): a value no stored row and no client holds
uuid4(n) == "uuid4-" \o ToString(n)

---------------------------------------------------------------------------
(* Enumerations of the models.                                             *)
TenantStatus == {"active", "inactive", "suspended", "pending", "on_hold"}
SportStatus == {"active", "inactive", "suspended"}
SportCategory == {"racket_sports", "field_sports", "mixed_sports", "other"}
MappingStatus == {"active", "inactive"}
ConfigStatus == {"active", "inactive"}

\* String(10) / max_length=10 of the code columns
MaxCodeLen == 10

\* the fields TenantQueryParams declares
TenantQueryParams == {"skip", "limit", "status", "search_id", "search", "include_deleted"}
\* the fields SportQueryParams declares
SportQueryParams == {"skip", "limit", "status", "category", "search_id", "search", "include_deleted"}

\* the keyword parameters SportService.get_sport accepts
SportService_get_sport_params == {"db", "sport_id"}


---------------------------------------------------------------------------
(* Responses: {data, msg, status}; data is the set of rows returned, and   *)
(* for a list also total_count and has_next_page.                          *)
Response(status, items) ==
    [status |-> status, items |-> items, total_count |-> NoneInt, has_next_page |-> FALSE]
\* HTTPException raised by a service, a 422 of request validation, or an
\* unhandled exception (500): no data
Error(status) == Response(status, {})

\* the keys of the JSON body a response is sent with.  A handler that
\* returns goes through FormatResponse.success / created; an HTTPException
\* and a request validation error are rendered by FastAPI's default
\* handlers as {detail} (the application registers no exception handler);
\* an unhandled exception gives a plain-text 500; read_root and health_check
\* return their own dictionaries.
BodyKeys(response) ==
    IF "keys" \in DOMAIN response THEN response.keys
    ELSE IF response.status \in {200, 201} THEN {"data", "msg", "status"}
    ELSE IF response.status = 500 THEN {}
    ELSE {"detail"}

\* what a crud or service call hands back: the status it leads to, the table
\* as committed (the old one after a rollback) and the rows returned
Result(status, table, items) == [status |-> status, table |-> table, items |-> items]

---------------------------------------------------------------------------
(* Generic repository (crud/base.py).                                      *)

\* select(model).filter(model.id == id): the ids of the rows found
CRUDBase_get(table, id) == {i \in DOMAIN table : i = id}

\* the NULL of a column, by its type
TextColumns == {"name", "tenant_code", "sport_name", "sport_code", "desciption"}
IntColumns == {"id", "tenant_id", "sport_id", "created_by", "updated_by"}
NoneOf(f) == IF f \in TextColumns THEN NoneText ELSE IF f \in IntColumns THEN NoneInt ELSE None

\* an update that skips the fields given as null
CRUDBase_update_skip_null(db_obj, update_data) ==
    [f \in DOMAIN db_obj |->
        IF f \in DOMAIN update_data /\ update_data[f] # NoneOf(f)
        THEN update_data[f] ELSE db_obj[f]]

\* update: setattr for every column present in update_data
\* (obj_in.model_dump(exclude_unset=True)), explicit nulls included
CRUDBase_update(db_obj, update_data) ==
    [f \in DOMAIN db_obj |-> IF f \in DOMAIN update_data THEN update_data[f] ELSE db_obj[f]]

\* relationship() declared without cascade="delete" and without
\* passive_deletes: on session.delete(parent) the unit of work loads the
\* children and sets their foreign key to NULL
ORM_nullify(children, fk, id) ==
    [i \in DOMAIN children |->
        IF children[i][fk] = id THEN [children[i] EXCEPT ![fk] = NoneInt] ELSE children[i]]

Without(table, id) == [i \in DOMAIN table \ {id} |-> table[i]]

---------------------------------------------------------------------------
(* Tenants.                                                                *)

\* constraints of public.tenants checked at commit: unique tenant_code,
\* unique tenant_uuid, nullable=False columns
TenantConstraints(table) ==
    /\ \A i, j \in DOMAIN table :
          i # j => /\ table[i].tenant_code # table[j].tenant_code
                   /\ table[i].tenant_uuid # table[j].tenant_uuid
    /\ \A i \in DOMAIN table :
          /\ table[i].name # NoneText
          /\ table[i].tenant_code # NoneText
          /\ table[i].tenant_uuid # None
          /\ table[i].status # None

\* a mapping table whose columns are nullable and without foreign keys
MappingConstraints_none(table, tenant_table, sport_table) == TRUE

\* constraints of public.tenant_sports_mapping checked at commit: the
\* nullable=False columns and the two foreign keys (no unique constraint)
MappingConstraints(table, tenant_table, sport_table) ==
    \A i \in DOMAIN table :
        /\ table[i].tenant_id \in DOMAIN tenant_table
        /\ table[i].sport_id \in DOMAIN sport_table
        /\ table[i].status # None

\* constraints of public.sports_config checked at commit
ConfigConstraints(table, sport_table) ==
    \A i \in DOMAIN table :
        /\ table[i].sport_id \in DOMAIN sport_table
        /\ table[i].status # None

\* @validator('tenant_code'), after min_length / max_length
validate_tenant_code_keep_case(v) ==
    IF Len(v) < 1 \/ Len(v) > MaxCodeLen THEN [ok |-> FALSE, value |-> v]
    ELSE IF ~isalnum(v) /\ "_" \notin Range(v) THEN [ok |-> FALSE, value |-> v]
    ELSE [ok |-> TRUE, value |-> v]

validate_tenant_code(v) ==
    IF Len(v) < 1 \/ Len(v) > MaxCodeLen THEN [ok |-> FALSE, value |-> v]
    ELSE IF ~isalnum(v) /\ "_" \notin Range(v) THEN [ok |-> FALSE, value |-> v]
    ELSE [ok |-> TRUE, value |-> upper(v)]

\* TenantCreate(**body): the validated model, or a validation error (422)
TenantCreate(body) ==
    LET code == validate_tenant_code(body.tenant_code)
    IN  [ok |-> code.ok /\ Len(body.name) >= 1,
         value |-> [body EXCEPT !.tenant_code = code.value]]

\* TenantUpdate(**body): optional fields; the validator runs on a code given
TenantUpdate(body) ==
    LET given == "tenant_code" \in DOMAIN body /\ body.tenant_code # NoneText
        code == IF given THEN validate_tenant_code(body.tenant_code)
                ELSE [ok |-> TRUE, value |-> NoneText]
    IN  [ok |-> /\ code.ok
                /\ ("name" \in DOMAIN body /\ body.name # NoneText) => Len(body.name) >= 1,
         value |-> [f \in DOMAIN body |-> IF f = "tenant_code" THEN code.value ELSE body[f]]]

CRUDTenant_get_by_code_live(tenant_code) ==
    {i \in DOMAIN tenants : tenants[i].tenant_code = tenant_code /\ ~tenants[i].is_deleted}

CRUDTenant_get_by_code(tenant_code) ==
    {i \in DOMAIN tenants : tenants[i].tenant_code = tenant_code}

\* count(Tenant.id) where id == tenant_id and is_deleted == False, > 0
CRUDTenant_validate_exists(tenant_id) ==
    Cardinality({i \in DOMAIN tenants : i = tenant_id /\ ~tenants[i].is_deleted}) > 0

\* a get_tenant that finds soft-deleted rows
TenantService_get_tenant_any(tenant_id) ==
    IF CRUDBase_get(tenants, tenant_id) = {} THEN 404 ELSE 200

\* TenantService.get_tenant: 404 when absent, 404 when soft-deleted
TenantService_get_tenant(tenant_id) ==
    IF CRUDBase_get(tenants, tenant_id) = {} THEN 404
    ELSE IF tenants[tenant_id].is_deleted THEN 404
    ELSE 200

\* TenantService.get_tenant_by_code
TenantService_get_tenant_by_code(tenant_code) ==
    LET found == CRUDTenant_get_by_code(tenant_code)
    IN  IF found = {} \/ (\E i \in found : tenants[i].is_deleted) THEN Error(404)
        ELSE Response(200, {tenants[i] : i \in found})

CRUDTenant_create_unchecked(obj_in) ==
    LET row == [id |-> seq.tenant, name |-> obj_in.name,
                tenant_code |-> obj_in.tenant_code, tenant_uuid |-> obj_in.tenant_uuid,
                email |-> obj_in.email, status |-> obj_in.status, is_deleted |-> FALSE]
    IN  Result(201, tenants @@ (seq.tenant :> row), {row})

\* CRUDBase.create on Tenant: add, commit (IntegrityError rolls back), refresh
CRUDTenant_create(obj_in) ==
    LET row == [id |-> seq.tenant, name |-> obj_in.name, tenant_code |-> obj_in.tenant_code,
                tenant_uuid |-> obj_in.tenant_uuid, email |-> obj_in.email,
                status |-> obj_in.status, is_deleted |-> FALSE]
        new == tenants @@ (seq.tenant :> row)
    IN  IF TenantConstraints(new) THEN Result(201, new, {row})
        ELSE Result(500, tenants, {})

\* TenantService.create_tenant: 400 when the code is held by any row
TenantService_create_tenant(tenant_in) ==
    IF CRUDTenant_get_by_code(tenant_in.tenant_code) # {} THEN Result(400, tenants, {})
    ELSE CRUDTenant_create(
            IF tenant_in.tenant_uuid = None
            THEN [tenant_in EXCEPT !.tenant_uuid = uuid4(seq.tenant)] ELSE tenant_in)

\* CRUDBase.update on Tenant: setattr, commit, refresh
CRUDTenant_update(tenant_id, update_data) ==
    LET row == CRUDBase_update(tenants[tenant_id], update_data)
        new == [tenants EXCEPT ![tenant_id] = row]
    IN  IF TenantConstraints(new) THEN Result(200, new, {row})
        ELSE Result(500, tenants, {})

\* an update that goes to the store without looking the new code up
TenantService_update_tenant_no_lookup(tenant_id, tenant_in) ==
    IF TenantService_get_tenant(tenant_id) # 200 THEN Result(404, tenants, {})
    ELSE CRUDTenant_update(tenant_id, tenant_in)

\* TenantService.update_tenant
TenantService_update_tenant(tenant_id, tenant_in) ==
    IF TenantService_get_tenant(tenant_id) # 200 THEN Result(404, tenants, {})
    ELSE LET code == IF "tenant_code" \in DOMAIN tenant_in THEN tenant_in.tenant_code
                     ELSE NoneText
         IN  IF /\ code # NoneText
                /\ code # tenants[tenant_id].tenant_code
                /\ \E i \in CRUDTenant_get_by_code(code) : i # tenant_id
             THEN Result(400, tenants, {})
             ELSE CRUDTenant_update(tenant_id, tenant_in)

\* CRUDBase.soft_delete on Tenant
CRUDTenant_soft_delete(id) ==
    IF CRUDBase_get(tenants, id) = {} THEN Result(200, tenants, {})
    ELSE LET row == [tenants[id] EXCEPT !.is_deleted = TRUE]
         IN  Result(200, [tenants EXCEPT ![id] = row], {row})

\* CRUDBase.delete on Tenant: Tenant.sports_mappings is nullified first, and
\* the commit checks the mapping table's constraints; returns the
\* tables <<tenants, mappings>> as committed
CRUDTenant_delete(id) ==
    IF CRUDBase_get(tenants, id) = {} THEN Result(200, <<tenants, mappings>>, {})
    ELSE LET kids == ORM_nullify(mappings, "tenant_id", id)
             left == Without(tenants, id)
         IN  IF MappingConstraints(kids, left, sports)
             THEN Result(200, <<left, kids>>, {tenants[id]})
             ELSE Result(500, <<tenants, mappings>>, {})

\* TenantService.delete_tenant
TenantService_delete_tenant(tenant_id, soft_delete) ==
    IF TenantService_get_tenant(tenant_id) # 200 THEN Result(404, <<tenants, mappings>>, {})
    ELSE IF soft_delete
         THEN LET r == CRUDTenant_soft_delete(tenant_id)
              IN  Result(r.status, <<r.table, mappings>>, r.items)
         ELSE CRUDTenant_delete(tenant_id)

---------------------------------------------------------------------------
(* Sports.                                                                 *)

\* constraints of public.sports checked at commit: unique sport_code,
\* nullable=False columns
SportConstraints(table) ==
    /\ \A i, j \in DOMAIN table : i # j => table[i].sport_code # table[j].sport_code
    /\ \A i \in DOMAIN table :
          /\ table[i].sport_code # NoneText
          /\ table[i].sport_name # NoneText
          /\ table[i].status # None

\* @validator('sport_code'), after min_length / max_length
validate_sport_code(v) ==
    IF Len(v) < 1 \/ Len(v) > MaxCodeLen THEN [ok |-> FALSE, value |-> v]
    ELSE IF ~isalnum(v) /\ "_" \notin Range(v) THEN [ok |-> FALSE, value |-> v]
    ELSE [ok |-> TRUE, value |-> upper(v)]

\* SportCreate(**body)
SportCreate(body) ==
    LET code == validate_sport_code(body.sport_code)
    IN  [ok |-> code.ok /\ Len(body.sport_name) >= 1,
         value |-> [body EXCEPT !.sport_code = code.value]]

\* SportUpdate(**body)
SportUpdate(body) ==
    LET given == "sport_code" \in DOMAIN body /\ body.sport_code # NoneText
        code == IF given THEN validate_sport_code(body.sport_code)
                ELSE [ok |-> TRUE, value |-> NoneText]
    IN  [ok |-> /\ code.ok
                /\ ("sport_name" \in DOMAIN body /\ body.sport_name # NoneText)
                      => Len(body.sport_name) >= 1,
         value |-> [f \in DOMAIN body |-> IF f = "sport_code" THEN code.value ELSE body[f]]]

CRUDSport_get_by_code(sport_code) ==
    {i \in DOMAIN sports : sports[i].sport_code = sport_code}

\* SportService.get_sport(db, sport_id)
SportService_get_sport(sport_id) ==
    IF CRUDBase_get(sports, sport_id) = {} THEN 404
    ELSE IF sports[sport_id].is_deleted THEN 404
    ELSE 200

\* SportService.get_sport_by_code
SportService_get_sport_by_code(sport_code) ==
    LET found == CRUDSport_get_by_code(sport_code)
    IN  IF found = {} \/ (\E i \in found : sports[i].is_deleted) THEN Error(404)
        ELSE Response(200, {sports[i] : i \in found})

\* CRUDBase.create on Sport
CRUDSport_create(obj_in) ==
    LET row == [id |-> seq.sport, sport_code |-> obj_in.sport_code,
                sport_name |-> obj_in.sport_name, category |-> obj_in.category,
                status |-> obj_in.status, is_deleted |-> FALSE]
        new == sports @@ (seq.sport :> row)
    IN  IF SportConstraints(new) THEN Result(201, new, {row})
        ELSE Result(500, sports, {})

\* SportService.create_sport
SportService_create_sport(sport_in) ==
    IF CRUDSport_get_by_code(sport_in.sport_code) # {} THEN Result(400, sports, {})
    ELSE CRUDSport_create(sport_in)

\* CRUDBase.update on Sport
CRUDSport_update(sport_id, update_data) ==
    LET row == CRUDBase_update(sports[sport_id], update_data)
        new == [sports EXCEPT ![sport_id] = row]
    IN  IF SportConstraints(new) THEN Result(200, new, {row})
        ELSE Result(500, sports, {})

\* SportService.update_sport
SportService_update_sport(sport_id, sport_in) ==
    IF SportService_get_sport(sport_id) # 200 THEN Result(404, sports, {})
    ELSE LET code == IF "sport_code" \in DOMAIN sport_in THEN sport_in.sport_code
                     ELSE NoneText
         IN  IF /\ code # NoneText
                /\ code # sports[sport_id].sport_code
                /\ \E i \in CRUDSport_get_by_code(code) : i # sport_id
             THEN Result(400, sports, {})
             ELSE CRUDSport_update(sport_id, sport_in)

\* a soft delete that removes the row
CRUDSport_soft_delete_removes(id) ==
    IF CRUDBase_get(sports, id) = {} THEN Result(200, sports, {})
    ELSE Result(200, Without(sports, id), {sports[id]})

\* CRUDBase.soft_delete on Sport
CRUDSport_soft_delete(id) ==
    IF CRUDBase_get(sports, id) = {} THEN Result(200, sports, {})
    ELSE LET row == [sports[id] EXCEPT !.is_deleted = TRUE]
         IN  Result(200, [sports EXCEPT ![id] = row], {row})

\* CRUDBase.delete on Sport: Sport.configs and Sport.tenant_mappings are
\* nullified first, and the commit checks the constraints of both child
\* tables; returns the tables <<sports, configs, mappings>> as committed
CRUDSport_delete(id) ==
    IF CRUDBase_get(sports, id) = {} THEN Result(200, <<sports, configs, mappings>>, {})
    ELSE LET cfgs == ORM_nullify(configs, "sport_id", id)
             maps == ORM_nullify(mappings, "sport_id", id)
             left == Without(sports, id)
         IN  IF ConfigConstraints(cfgs, left) /\ MappingConstraints(maps, tenants, left)
             THEN Result(200, <<left, cfgs, maps>>, {sports[id]})
             ELSE Result(500, <<sports, configs, mappings>>, {})

\* SportService.delete_sport
SportService_delete_sport(sport_id, soft_delete) ==
    IF SportService_get_sport(sport_id) # 200
    THEN Result(404, <<sports, configs, mappings>>, {})
    ELSE IF soft_delete
         THEN LET r == CRUDSport_soft_delete(sport_id)
              IN  Result(r.status, <<r.table, configs, mappings>>, r.items)
         ELSE CRUDSport_delete(sport_id)

\* a validate_sports_exist that takes every row found for valid
CRUDSport_validate_sports_exist_found(sport_ids) ==
    LET sport_rows == {i \in DOMAIN sports : i \in sport_ids}
    IN  <<sport_rows, {i \in sport_ids : i \notin sport_rows}>>

\* CRUDSport.validate_sports_exist: <<valid ids, invalid ids>>
CRUDSport_validate_sports_exist(sport_ids) ==
    LET sport_rows == {i \in DOMAIN sports : i \in sport_ids}
        valid_sport_ids == {i \in sport_rows : ~sports[i].is_deleted}
        all_found_ids == sport_rows
        invalid_sport_ids ==
            {i \in sport_ids : i \notin all_found_ids \/ i \notin valid_sport_ids}
    IN  IF sport_ids = {} THEN <<{}, {}>> ELSE <<valid_sport_ids, invalid_sport_ids>>

---------------------------------------------------------------------------
(* Filtered, paginated lists.                                              *)

\* query.offset(skip).limit(limit) over a result without ORDER BY: the store
\* picks the order, so a page is any set of the right size
Pages(matched, skip, limit) ==
    {page \in SUBSET matched :
        Cardinality(page) = Min(limit, Max(0, Cardinality(matched) - skip))}

\* query_params: TenantQueryParams = Depends(): the object is built from the
\* query parameters the class declares; any other parameter of the URL is
\* not passed on
Depends(fields, query) == [f \in (DOMAIN query) \cap fields |-> query[f]]

\* CRUDTenant._apply_filters on select(Tenant) / select(count(...)): reads
\* query_params.sports_id first, an AttributeError on a model without that
\* field; otherwise the <<tenant id, mapping id>> rows of the (joined) query
CRUDTenant_apply_filters(query_params) ==
    IF "sports_id" \notin DOMAIN query_params THEN [raised |-> TRUE, rows |-> {}]
    ELSE [raised |-> FALSE,
          rows |->
            {r \in (DOMAIN tenants) \X (DOMAIN mappings \cup {NoneInt}) :
                /\ IF query_params.sports_id # NoneInt
                   THEN /\ r[2] # NoneInt
                        /\ mappings[r[2]].tenant_id = r[1]
                        /\ mappings[r[2]].sport_id = query_params.sports_id
                   ELSE r[2] = NoneInt
                /\ (~query_params.include_deleted => ~tenants[r[1]].is_deleted)
                /\ (query_params.status # None => tenants[r[1]].status = query_params.status)
                /\ (query_params.search_id # NoneInt => r[1] = query_params.search_id)
                /\ (query_params.search # NoneText =>
                       \/ ilike(tenants[r[1]].name, search_pattern(query_params.search))
                       \/ ilike(tenants[r[1]].tenant_code, search_pattern(query_params.search)))}]

\* TenantListResponse.model_validate(tenant)
TenantListResponse(t) == [id |-> t.id, name |-> t.name, tenant_code |-> t.tenant_code,
                          status |-> t.status]

\* CRUDTenant.get_multi followed by TenantService.get_tenants: the set of
\* responses the request can get
TenantService_get_tenants(query_params) ==
    LET base_query == CRUDTenant_apply_filters(query_params)
        count_query == CRUDTenant_apply_filters(query_params)
    IN  IF base_query.raised \/ count_query.raised THEN {Error(500)}
        ELSE LET \* count(distinct(Tenant.id)) with the join, count(Tenant.id) without
                 total_count == IF query_params.sports_id # NoneInt
                                THEN Cardinality({r[1] : r \in count_query.rows})
                                ELSE Cardinality(count_query.rows)
                 \* .distinct() with the join
                 data == {r[1] : r \in base_query.rows}
             IN  {[status |-> 200,
                   items |-> {TenantListResponse(tenants[i]) : i \in page},
                   total_count |-> total_count,
                   has_next_page |-> (query_params.skip + query_params.limit) < total_count] :
                     page \in Pages(data, query_params.skip, query_params.limit)}

\* the filters CRUDSport.get_multi puts on base_query = select(Sport)
CRUDSport_base_query(query_params) ==
    {i \in DOMAIN sports :
        /\ (~query_params.include_deleted => ~sports[i].is_deleted)
        /\ (query_params.status # None => sports[i].status = query_params.status)
        /\ (query_params.category # None => sports[i].category = query_params.category)
        /\ (query_params.search_id # NoneInt => i = query_params.search_id)
        /\ (query_params.search # NoneText =>
               \/ ilike(sports[i].sport_name, search_pattern(query_params.search))
               \/ ilike(sports[i].sport_code, search_pattern(query_params.search)))}

\* the filters it repeats on count_query = select(count(Sport.id))
CRUDSport_count_query(query_params) ==
    Cardinality({i \in DOMAIN sports :
        /\ (~query_params.include_deleted => ~sports[i].is_deleted)
        /\ (query_params.status # None => sports[i].status = query_params.status)
        /\ (query_params.category # None => sports[i].category = query_params.category)
        /\ (query_params.search_id # NoneInt => i = query_params.search_id)
        /\ (query_params.search # NoneText =>
               \/ ilike(sports[i].sport_name, search_pattern(query_params.search))
               \/ ilike(sports[i].sport_code, search_pattern(query_params.search)))})

\* SportListResponse.model_validate(sport)
SportListResponse(t) == [id |-> t.id, sport_code |-> t.sport_code,
                         sport_name |-> t.sport_name, category |-> t.category,
                         status |-> t.status]

\* CRUDSport.get_multi followed by SportService.get_sports
SportService_get_sports(query_params) ==
    LET total_count == CRUDSport_count_query(query_params)
    IN  {[status |-> 200,
          items |-> {SportListResponse(sports[i]) : i \in page},
          total_count |-> total_count,
          has_next_page |-> (query_params.skip + query_params.limit) < total_count] :
            page \in Pages(CRUDSport_base_query(query_params),
                           query_params.skip, query_params.limit)}

---------------------------------------------------------------------------
(* Tenant-sport mappings.                                                  *)

\* select(TenantSportsMapping) where tenant_id and sport_id match
CRUDMapping_get_by_tenant_and_sport(tenant_id, sport_id) ==
    {i \in DOMAIN mappings :
        mappings[i].tenant_id = tenant_id /\ mappings[i].sport_id = sport_id}

\* a count of the active mappings only
CRUDMapping_count_existing_mappings_active(tenant_id, sport_ids) ==
    Cardinality({i \in DOMAIN mappings :
        /\ mappings[i].tenant_id = tenant_id /\ mappings[i].sport_id \in sport_ids
        /\ mappings[i].status = "active"})

\* a count that sees no existing mapping
CRUDMapping_count_existing_mappings_none(tenant_id, sport_ids) == 0

\* count(TenantSportsMapping.id) where tenant_id matches and sport_id is in
\* sport_ids
CRUDMapping_count_existing_mappings(tenant_id, sport_ids) ==
    IF sport_ids = {} THEN 0
    ELSE Cardinality({i \in DOMAIN mappings :
            mappings[i].tenant_id = tenant_id /\ mappings[i].sport_id \in sport_ids})

\* a bulk create under a unique constraint on (tenant_id, sport_id)
CRUDMapping_bulk_create_unique(mapping_list) ==
    LET ids == {seq.mapping + i - 1 : i \in DOMAIN mapping_list}
        new == mappings @@
               [k \in ids |-> [id |-> k] @@ mapping_list[k - seq.mapping + 1]]
    IN  IF mapping_list = <<>> THEN Result(201, mappings, {})
        ELSE IF /\ MappingConstraints(new, tenants, sports)
                /\ \A i, j \in DOMAIN new :
                      (i # j /\ new[i].tenant_id = new[j].tenant_id) =>
                          new[i].sport_id # new[j].sport_id
             THEN Result(201, new, {new[k] : k \in ids})
             ELSE Result(500, mappings, {})

\* a bulk_create that commits row by row: the rows before the first one the
\* database refuses stay
CRUDMapping_bulk_create_each(mapping_list) ==
    LET row(i) == [id |-> seq.mapping + i - 1] @@ mapping_list[i]
        accepted(i) == MappingConstraints(<<row(i)>>, tenants, sports)
        n == Cardinality({i \in DOMAIN mapping_list :
                             \A j \in 1..i : accepted(j)})
        new == mappings @@ [k \in seq.mapping..(seq.mapping + n - 1) |->
                               row(k - seq.mapping + 1)]
    IN  IF n = Len(mapping_list)
        THEN Result(201, new, {new[k] : k \in seq.mapping..(seq.mapping + n - 1)})
        ELSE Result(500, new, {})

\* CRUDTenantSportsMapping.bulk_create: one row per list entry, add_all, one
\* commit (IntegrityError rolls back), refresh
CRUDMapping_bulk_create(mapping_list) ==
    LET ids == {seq.mapping + i - 1 : i \in DOMAIN mapping_list}
        new == mappings @@
               [k \in ids |-> [id |-> k] @@ mapping_list[k - seq.mapping + 1]]
    IN  IF mapping_list = <<>> THEN Result(201, mappings, {})
        ELSE IF MappingConstraints(new, tenants, sports)
             THEN Result(201, new, {new[k] : k \in ids})
             ELSE Result(500, mappings, {})

\* the sport ids of a request, de-duplicated: list(set([...]))
sport_ids_of(request) == {request.sports[i].sport_id : i \in DOMAIN request.sports}

\* the TenantSportsMappingCreate list built from request.sports
mapping_data_list(tenant_id, request) ==
    [i \in DOMAIN request.sports |->
        [tenant_id |-> tenant_id,
         sport_id |-> request.sports[i].sport_id,
         status |-> "active",
         desciption |-> request.sports[i].desciption,
         created_by |-> IF request.created_by \in {NoneInt, 0} THEN 1
                        ELSE request.created_by,
         updated_by |-> NoneInt]]

\* a bulk_register_sports that counts the existing mappings before it
\* validates the sports
MappingService_bulk_register_sports_count_first(tenant_id, request) ==
    IF request.sports = <<>> THEN Result(400, mappings, {})
    ELSE IF ~CRUDTenant_validate_exists(tenant_id) THEN Result(404, mappings, {})
    ELSE IF CRUDMapping_count_existing_mappings(tenant_id, sport_ids_of(request)) > 0
         THEN Result(400, mappings, {})
    ELSE IF Cardinality(CRUDSport_validate_sports_exist(sport_ids_of(request))[1])
                # Cardinality(sport_ids_of(request))
         THEN Result(404, mappings, {})
    ELSE CRUDMapping_bulk_create(mapping_data_list(tenant_id, request))

\* TenantSportsMappingService.bulk_register_sports
MappingService_bulk_register_sports(tenant_id, request) ==
    IF request.sports = <<>> THEN Result(400, mappings, {})
    ELSE IF ~CRUDTenant_validate_exists(tenant_id) THEN Result(404, mappings, {})
    ELSE IF Cardinality(CRUDSport_validate_sports_exist(sport_ids_of(request))[1])
                # Cardinality(sport_ids_of(request))
         THEN Result(404, mappings, {})
    ELSE IF CRUDMapping_count_existing_mappings(tenant_id, sport_ids_of(request)) > 0
         THEN Result(400, mappings, {})
    ELSE CRUDMapping_bulk_create(mapping_data_list(tenant_id, request))

\* TenantSportsMappingService.validate_tenant_and_sport: TRUE when it returns,
\* FALSE when it raises.  gathered tells whether asyncio.gather could run the
\* two db.execute calls on the one session (the session refuses concurrent
\* use).  Each result is then read with scalar_one_or_none(), which gives
\* the first column of the row (an int) or None, and unpacked into two
\* names: neither an int nor None unpacks, a TypeError, before any of the
\* four checks is reached.
MappingService_validate_tenant_and_sport(tenant_id, sport_id, gathered) ==
    LET scalar_one_or_none(rows) ==
            IF rows = {} THEN [type |-> "NoneType"] ELSE [type |-> "int"]
        tenant_result == scalar_one_or_none(CRUDBase_get(tenants, tenant_id))
        sport_result == scalar_one_or_none(CRUDBase_get(sports, sport_id))
        unpacks(value) == value.type = "tuple"
    IN  /\ gathered
        /\ unpacks(tenant_result)
        /\ unpacks(sport_result)
        /\ tenant_id \in DOMAIN tenants /\ ~tenants[tenant_id].is_deleted
        /\ sport_id \in DOMAIN sports /\ ~sports[sport_id].is_deleted

\* TenantSportsMappingService.register_sport; an exception that is no
\* HTTPException ends the request with 500
MappingService_register_sport(tenant_id, request, gathered) ==
    LET existing_mapping == CRUDMapping_get_by_tenant_and_sport(tenant_id, request.sport_id)
    IN  IF Cardinality(existing_mapping) > 1 THEN Result(500, mappings, {})
        ELSE IF existing_mapping # {} THEN Result(400, mappings, {})
        ELSE IF ~MappingService_validate_tenant_and_sport(tenant_id, request.sport_id,
                                                          gathered)
             THEN Result(500, mappings, {})
        ELSE CRUDMapping_bulk_create(
                <<[tenant_id |-> tenant_id, sport_id |-> request.sport_id,
                   status |-> IF request.status = None THEN "active" ELSE request.status,
                   desciption |-> request.desciption,
                   created_by |-> request.created_by, updated_by |-> NoneInt]>>)

\* CRUDBase.update on TenantSportsMapping
CRUDMapping_update(id, update_data) ==
    LET row == CRUDBase_update(mappings[id], update_data)
        new == [mappings EXCEPT ![id] = row]
    IN  IF MappingConstraints(new, tenants, sports) THEN Result(200, new, {row})
        ELSE Result(500, mappings, {})

\* TenantSportsMappingService.update_mapping_by_tenant_sport;
\* scalar_one_or_none raises MultipleResultsFound on two rows
MappingService_update_mapping_by_tenant_sport(tenant_id, sport_id, mapping_in) ==
    LET found == CRUDMapping_get_by_tenant_and_sport(tenant_id, sport_id)
    IN  IF Cardinality(found) > 1 THEN Result(500, mappings, {})
        ELSE IF found = {} THEN Result(404, mappings, {})
        ELSE CRUDMapping_update(CHOOSE i \in found : TRUE, mapping_in)

---------------------------------------------------------------------------
(* Sport configs.                                                          *)

\* class ConfigType(str, enum.Enum): no member is defined
ConfigType == {}

\* CRUDSportConfig.create_bulk: add_all, one commit, then a refresh of each
\* row.  config_type is a plain string in the schema; a string that is no
\* member of ConfigType is sent to the database as given.  The labels of the
\* database type config_type are not defined by the repository
\* (create_type=False, no migration): db_accepts tells whether it has the
\* labels of this request.  When it has, the rows are committed and the
\* refresh, which converts the stored label back to a ConfigType member,
\* raises LookupError.
CRUDSportConfig_create_bulk(config_list, db_accepts) ==
    LET ids == {seq.config + i - 1 : i \in DOMAIN config_list}
        new == configs @@
               [k \in ids |-> [id |-> k] @@ config_list[k - seq.config + 1]]
        members == \A i \in DOMAIN config_list : config_list[i].config_type \in ConfigType
    IN  IF ~ConfigConstraints(new, sports) THEN Result(500, configs, {})
        ELSE IF members THEN Result(201, new, {new[k] : k \in ids})
        ELSE IF db_accepts THEN Result(500, new, {})
        ELSE Result(500, configs, {})

\* SportConfigService.create_config_bulk
SportConfigService_create_config_bulk(sport_id, bulk_create, db_accepts) ==
    IF bulk_create.configs = <<>> THEN Result(400, configs, {})
    ELSE CRUDSportConfig_create_bulk(
            [i \in DOMAIN bulk_create.configs |->
                [sport_id |-> sport_id,
                 config_type |-> bulk_create.configs[i].config_type,
                 status |-> bulk_create.configs[i].status]], db_accepts)

---------------------------------------------------------------------------
(* Endpoints (router/tenant.py, router/sports.py).  A request handled by   *)
(* one action runs alone: no other request is in progress.                 *)

Idle == \A w \in DOMAIN inflight : inflight[w].pc = "idle"

\* POST /tenant
create_tenant(body) ==
    /\ Idle
    /\ seq.tenant <= MaxTenants
    /\ LET tenant_in == TenantCreate(body)
           r == IF tenant_in.ok THEN TenantService_create_tenant(tenant_in.value)
                ELSE Result(422, tenants, {})
       IN  /\ tenants' = r.table
           /\ seq' = IF r.status = 201 THEN [seq EXCEPT !.tenant = @ + 1] ELSE seq
           /\ req' = [op |-> "create_tenant", body |-> body]
           /\ resp' = Response(r.status, r.items)
    /\ UNCHANGED <<sports, configs, mappings, inflight>>

\* GET /tenant
get_tenants(query_params) ==
    /\ Idle
    /\ req' = [op |-> "get_tenants", query_params |-> query_params]
    /\ resp' \in TenantService_get_tenants(Depends(TenantQueryParams, query_params))
    /\ UNCHANGED <<store, seq, inflight>>

\* GET /tenant/{tenant_id}; the response carries the row's columns whether
\* or not include_sports loaded the relationship
get_tenant(tenant_id) ==
    /\ Idle
    /\ req' = [op |-> "get_tenant", tenant_id |-> tenant_id]
    /\ resp' = IF TenantService_get_tenant(tenant_id) = 200
               THEN Response(200, {tenants[tenant_id]}) ELSE Error(404)
    /\ UNCHANGED <<store, seq, inflight>>

\* GET /tenant/code/{tenant_code}
get_tenant_by_code(tenant_code) ==
    /\ Idle
    /\ req' = [op |-> "get_tenant_by_code", tenant_code |-> tenant_code]
    /\ resp' = TenantService_get_tenant_by_code(tenant_code)
    /\ UNCHANGED <<store, seq, inflight>>

\* PUT /tenant/{tenant_id}
update_tenant(tenant_id, body) ==
    /\ Idle
    /\ LET tenant_in == TenantUpdate(body)
           r == IF tenant_in.ok THEN TenantService_update_tenant(tenant_id, tenant_in.value)
                ELSE Result(422, tenants, {})
       IN  /\ tenants' = r.table
           /\ req' = [op |-> "update_tenant", tenant_id |-> tenant_id, body |-> body]
           /\ resp' = Response(r.status, r.items)
    /\ UNCHANGED <<sports, configs, mappings, seq, inflight>>

\* DELETE /tenant/{tenant_id}?soft_delete=: the statements of the request,
\* one transaction
delete_tenant_txn(tenant_id, soft_delete) ==
    /\ LET r == TenantService_delete_tenant(tenant_id, soft_delete)
       IN  /\ tenants' = r.table[1]
           /\ mappings' = r.table[2]
           /\ req' = [op |-> "delete_tenant", tenant_id |-> tenant_id,
                      soft_delete |-> soft_delete]
           /\ resp' = Response(r.status, r.items)
    /\ UNCHANGED <<sports, configs, seq, inflight>>

\* DELETE /tenant/{tenant_id}?soft_delete=
delete_tenant(tenant_id, soft_delete) ==
    /\ Idle
    /\ delete_tenant_txn(tenant_id, soft_delete)

\* POST /tenant/{tenant_id}/sports; BulkRegisterSportRequest has
\* min_items=1 on sports
register_sports(tenant_id, request) ==
    /\ Idle
    /\ seq.mapping + Len(request.sports) - 1 <= MaxMappings
    /\ LET r == IF Len(request.sports) < 1 THEN Result(422, mappings, {})
                ELSE MappingService_bulk_register_sports(tenant_id, request)
       IN  /\ mappings' = r.table
           /\ seq' = IF r.status = 201
                     THEN [seq EXCEPT !.mapping = @ + Len(request.sports)] ELSE seq
           /\ req' = [op |-> "register_sports", tenant_id |-> tenant_id,
                      request |-> request]
           /\ resp' = Response(r.status, r.items)
    /\ UNCHANGED <<tenants, sports, configs, inflight>>

\* a call of TenantSportsMappingService.register_sport (no router calls it)
register_sport(tenant_id, request) ==
    /\ Idle
    /\ seq.mapping <= MaxMappings
    /\ \E gathered \in BOOLEAN :
        LET r == MappingService_register_sport(tenant_id, request, gathered)
        IN  /\ mappings' = r.table
            /\ seq' = IF r.status = 201 THEN [seq EXCEPT !.mapping = @ + 1] ELSE seq
            /\ req' = [op |-> "register_sport", tenant_id |-> tenant_id,
                       request |-> request]
            /\ resp' = Response(r.status, r.items)
    /\ UNCHANGED <<tenants, sports, configs, inflight>>

\* PUT /tenant/{tenant_id}/sports/{sport_id}
update_sport_mapping(tenant_id, sport_id, mapping_in) ==
    /\ Idle
    /\ LET r == MappingService_update_mapping_by_tenant_sport(tenant_id, sport_id, mapping_in)
       IN  /\ mappings' = r.table
           /\ req' = [op |-> "update_sport_mapping", tenant_id |-> tenant_id,
                      sport_id |-> sport_id, body |-> mapping_in]
           /\ resp' = Response(r.status, r.items)
    /\ UNCHANGED <<tenants, sports, configs, seq, inflight>>

\* POST /sport
create_sport(body) ==
    /\ Idle
    /\ seq.sport <= MaxSports
    /\ LET sport_in == SportCreate(body)
           r == IF sport_in.ok THEN SportService_create_sport(sport_in.value)
                ELSE Result(422, sports, {})
       IN  /\ sports' = r.table
           /\ seq' = IF r.status = 201 THEN [seq EXCEPT !.sport = @ + 1] ELSE seq
           /\ req' = [op |-> "create_sport", body |-> body]
           /\ resp' = Response(r.status, r.items)
    /\ UNCHANGED <<tenants, configs, mappings, inflight>>

\* GET /sport
get_sports(query_params) ==
    /\ Idle
    /\ req' = [op |-> "get_sports", query_params |-> query_params]
    /\ resp' \in SportService_get_sports(query_params)
    /\ UNCHANGED <<store, seq, inflight>>

\* GET /sport/{sport_id}: the router calls
\* sport_service.get_sport(db=, sport_id=, include_configs=), a TypeError
\* for a keyword the service method does not accept
get_sport(sport_id) ==
    /\ Idle
    /\ req' = [op |-> "get_sport", sport_id |-> sport_id]
    /\ resp' = IF ~({"db", "sport_id", "include_configs"} \subseteq SportService_get_sport_params)
               THEN Error(500)
               ELSE IF SportService_get_sport(sport_id) = 200
                    THEN Response(200, {sports[sport_id]}) ELSE Error(404)
    /\ UNCHANGED <<store, seq, inflight>>

\* GET /sport/code/{sport_code}
get_sport_by_code(sport_code) ==
    /\ Idle
    /\ req' = [op |-> "get_sport_by_code", sport_code |-> sport_code]
    /\ resp' = SportService_get_sport_by_code(sport_code)
    /\ UNCHANGED <<store, seq, inflight>>

\* PUT /sport/{sport_id}
update_sport(sport_id, body) ==
    /\ Idle
    /\ LET sport_in == SportUpdate(body)
           r == IF sport_in.ok THEN SportService_update_sport(sport_id, sport_in.value)
                ELSE Result(422, sports, {})
       IN  /\ sports' = r.table
           /\ req' = [op |-> "update_sport", sport_id |-> sport_id, body |-> body]
           /\ resp' = Response(r.status, r.items)
    /\ UNCHANGED <<tenants, configs, mappings, seq, inflight>>

\* DELETE /sport/{sport_id}?soft_delete=: the statements of the request, one
\* transaction
delete_sport_txn(sport_id, soft_delete) ==
    /\ LET r == SportService_delete_sport(sport_id, soft_delete)
       IN  /\ sports' = r.table[1]
           /\ configs' = r.table[2]
           /\ mappings' = r.table[3]
           /\ req' = [op |-> "delete_sport", sport_id |-> sport_id,
                      soft_delete |-> soft_delete]
           /\ resp' = Response(r.status, r.items)
    /\ UNCHANGED <<tenants, seq, inflight>>

\* DELETE /sport/{sport_id}?soft_delete=
delete_sport(sport_id, soft_delete) ==
    /\ Idle
    /\ delete_sport_txn(sport_id, soft_delete)

\* POST /sport/{sport_id}/config: the statements of the request, one
\* transaction; SportConfigBulkCreate has min_items=1
create_sport_config_bulk_txn(sport_id, bulk_create) ==
    /\ seq.config + Len(bulk_create.configs) - 1 <= MaxConfigs
    /\ \E db_accepts \in BOOLEAN :
        LET r == IF Len(bulk_create.configs) < 1 THEN Result(422, configs, {})
                 ELSE SportConfigService_create_config_bulk(sport_id, bulk_create,
                                                            db_accepts)
        IN  /\ configs' = r.table
            /\ seq' = IF r.table # configs
                      THEN [seq EXCEPT !.config = @ + Len(bulk_create.configs)] ELSE seq
            /\ req' = [op |-> "create_sport_config_bulk", sport_id |-> sport_id,
                       bulk_create |-> bulk_create]
            /\ resp' = Response(r.status, r.items)
    /\ UNCHANGED <<tenants, sports, mappings, inflight>>

\* POST /sport/{sport_id}/config
create_sport_config_bulk(sport_id, bulk_create) ==
    /\ Idle
    /\ create_sport_config_bulk_txn(sport_id, bulk_create)

\* GET /: return {"message": "Welcome to CTMS API"}
read_root ==
    /\ Idle
    /\ req' = [op |-> "read_root"]
    /\ resp' = [keys |-> {"message"}] @@ Response(200, {})
    /\ UNCHANGED <<store, seq, inflight>>

\* GET /health: JSONResponse(content={"status": "healthy"})
health_check ==
    /\ Idle
    /\ req' = [op |-> "health_check"]
    /\ resp' = [keys |-> {"status"}] @@ Response(200, {})
    /\ UNCHANGED <<store, seq, inflight>>

---------------------------------------------------------------------------
(* The state after start-up: empty tables, no request handled yet.         *)
Workers == {1, 2}

Init ==
    /\ tenants = <<>>
    /\ sports = <<>>
    /\ configs = <<>>
    /\ mappings = <<>>
    /\ seq = [tenant |-> 1, sport |-> 1, config |-> 1, mapping |-> 1]
    /\ req = [op |-> "none"]
    /\ resp = Error(0)
    /\ inflight = [w \in Workers |-> [pc |-> "idle"]]

---------------------------------------------------------------------------
(* Requests enumerated by the specifications.                              *)

\* ids addressed by requests: those a table can hold, and 0, which none holds
TenantIds == 0..MaxTenants
SportIds == 0..MaxSports

TenantBody(code, uuid) ==
    [name |-> <<"a", "1">>, tenant_code |-> code, tenant_uuid |-> uuid,
     email |-> "e1", status |-> "active"]

TenantCodes == {<<"a">>, <<"A">>, <<"b">>, <<"-">>}

TenantBodies == {TenantBody(c, None) : c \in TenantCodes}

\* partial bodies of PUT /tenant/{id}: the fields set, nulls included
TenantUpdates ==
    {[status |-> "inactive"], [status |-> None], [email |-> None],
     [name |-> <<"b">>, tenant_code |-> <<"b">>], [tenant_code |-> <<"a">>]}

TenantQueries ==
    [skip : 0..1, limit : 1..MaxPage, status : {None}, search_id : {NoneInt},
     search : {NoneText}, include_deleted : BOOLEAN]

---------------------------------------------------------------------------
(* Tenant endpoints.                                                       *)
NextTenant ==
    \/ \E body \in TenantBodies : create_tenant(body)
    \/ \E query_params \in TenantQueries : get_tenants(query_params)
    \/ \E tenant_id \in TenantIds : get_tenant(tenant_id)
    \/ \E tenant_code \in TenantCodes : get_tenant_by_code(upper(tenant_code))
    \/ \E tenant_id \in TenantIds, body \in TenantUpdates : update_tenant(tenant_id, body)
    \/ \E tenant_id \in TenantIds, soft_delete \in BOOLEAN :
          delete_tenant(tenant_id, soft_delete)

SpecTenant == Init /\ [][NextTenant]_vars

---------------------------------------------------------------------------
(* Sport endpoints.                                                        *)
SportBody(code, name, category) ==
    [sport_code |-> code, sport_name |-> name, category |-> category, status |-> "active"]

SportCodes == {<<"a">>, <<"A">>, <<"b", "1">>, <<"-">>}

SportBodies ==
    {SportBody(<<"a">>, <<"B", "a", "s">>, None), SportBody(<<"A">>, <<"B", "a", "s">>, None),
     SportBody(<<"b", "1">>, <<"s">>, "other"), SportBody(<<"-">>, <<"s">>, None)}

SportUpdates ==
    {[status |-> "inactive"], [category |-> "other"], [sport_code |-> <<"a">>],
     [sport_name |-> NoneText]}

SportFilters ==
    {[status |-> None, category |-> None, search_id |-> NoneInt, search |-> NoneText],
     [status |-> "active", category |-> None, search_id |-> NoneInt, search |-> NoneText],
     [status |-> None, category |-> "other", search_id |-> NoneInt, search |-> NoneText],
     [status |-> None, category |-> None, search_id |-> 1, search |-> NoneText],
     [status |-> None, category |-> None, search_id |-> NoneInt, search |-> <<"a">>],
     [status |-> "active", category |-> "other", search_id |-> NoneInt, search |-> <<"_", "1">>]}

SportQueries ==
    {[skip |-> skip, limit |-> limit, status |-> f.status, category |-> f.category,
      search_id |-> f.search_id, search |-> f.search, include_deleted |-> d] :
        skip \in 0..1, limit \in 1..MaxPage, f \in SportFilters, d \in BOOLEAN}

NextSport ==
    \/ \E body \in SportBodies : create_sport(body)
    \/ \E query_params \in SportQueries : get_sports(query_params)
    \/ \E sport_id \in SportIds : get_sport(sport_id)
    \/ \E sport_code \in SportCodes : get_sport_by_code(upper(sport_code))
    \/ \E sport_id \in SportIds, body \in SportUpdates : update_sport(sport_id, body)
    \/ \E sport_id \in SportIds, soft_delete \in BOOLEAN : delete_sport(sport_id, soft_delete)

SpecSport == Init /\ [][NextSport]_vars

---------------------------------------------------------------------------
(* Creation of tenants and sports, with deletes in between.                *)
CreateCodes == {<<"a">>, <<"A">>, <<"b">>}

TenantCreateBodies == {TenantBody(c, u) : c \in CreateCodes, u \in {None, "u1"}}

SportCreateBodies == {SportBody(c, <<"s">>, None) : c \in CreateCodes}

NextCreate ==
    \/ \E body \in TenantCreateBodies : create_tenant(body)
    \/ \E body \in SportCreateBodies : create_sport(body)
    \/ \E tenant_id \in TenantIds, soft_delete \in BOOLEAN :
          delete_tenant(tenant_id, soft_delete)
    \/ \E sport_id \in SportIds, soft_delete \in BOOLEAN : delete_sport(sport_id, soft_delete)

SpecCreate == Init /\ [][NextCreate]_vars

---------------------------------------------------------------------------
(* Creates, renames and deletes of tenants and sports.                     *)
TenantRenames == {[tenant_code |-> <<"a">>], [tenant_code |-> <<"b">>, status |-> "inactive"]}

SportRenames == {[sport_code |-> <<"a">>], [sport_code |-> <<"b">>, status |-> "inactive"]}

CodeTenantBodies ==
    {TenantBody(<<"a">>, None), TenantBody(<<"A">>, "u1"), TenantBody(<<"b">>, "u1")}

NextCode ==
    \/ \E body \in CodeTenantBodies : create_tenant(body)
    \/ \E tenant_id \in TenantIds, body \in TenantRenames : update_tenant(tenant_id, body)
    \/ \E tenant_id \in TenantIds : delete_tenant(tenant_id, TRUE)
    \/ \E body \in SportCreateBodies : create_sport(body)
    \/ \E sport_id \in SportIds, body \in SportRenames : update_sport(sport_id, body)
    \/ \E sport_id \in SportIds : delete_sport(sport_id, TRUE)

SpecCode == Init /\ [][NextCode]_vars

---------------------------------------------------------------------------
(* Registration of sports for tenants, mapping updates, configs, deletes.  *)
MapTenantBodies == {TenantBody(<<"a">>, None)}

MapSportBodies == {SportBody(<<"a">>, <<"s">>, None), SportBody(<<"b">>, <<"s">>, None)}

\* the longest sports list of a register request
MaxBatch == 2

SportMappingItem(sport_id) == [sport_id |-> sport_id, desciption |-> NoneText]

\* register requests: every list of 1..MaxBatch sport ids in ascending order,
\* repeated ids included
BulkRequests ==
    UNION {{[sports |-> [i \in 1..n |-> SportMappingItem(ids[i])], created_by |-> NoneInt] :
              ids \in {f \in [1..n -> SportIds] : \A i \in 1..(n - 1) : f[i] <= f[i + 1]}} :
           n \in 1..MaxBatch}

\* TenantSportsMappingUpdate bodies: a status, an explicit null status
MappingUpdates == {[status |-> "inactive"], [status |-> None]}

ConfigBulkCreates == {[configs |-> <<[config_type |-> "rules", status |-> "active"]>>]}

NextMap ==
    \/ \E body \in MapTenantBodies : create_tenant(body)
    \/ \E body \in MapSportBodies : create_sport(body)
    \/ \E tenant_id \in TenantIds, request \in BulkRequests :
          register_sports(tenant_id, request)
    \/ \E tenant_id \in TenantIds, sport_id \in SportIds, mapping_in \in MappingUpdates :
          update_sport_mapping(tenant_id, sport_id, mapping_in)
    \/ \E tenant_id \in TenantIds, soft_delete \in BOOLEAN :
          delete_tenant(tenant_id, soft_delete)
    \/ \E sport_id \in SportIds, soft_delete \in BOOLEAN : delete_sport(sport_id, soft_delete)

SpecMap == Init /\ [][NextMap]_vars

NextRegister ==
    \/ \E body \in MapTenantBodies : create_tenant(body)
    \/ \E body \in MapSportBodies : create_sport(body)
    \/ \E tenant_id \in TenantIds,
          request \in BulkRequests \cup {[sports |-> <<>>, created_by |-> NoneInt]} :
          register_sports(tenant_id, request)
    \/ \E tenant_id \in TenantIds : delete_tenant(tenant_id, TRUE)
    \/ \E sport_id \in SportIds : delete_sport(sport_id, TRUE)

SpecRegister == Init /\ [][NextRegister]_vars

NextCascade ==
    \/ \E body \in MapTenantBodies : create_tenant(body)
    \/ \E body \in MapSportBodies : create_sport(body)
    \/ \E tenant_id \in TenantIds, request \in BulkRequests :
          register_sports(tenant_id, request)
    \/ \E sport_id \in SportIds, bulk_create \in ConfigBulkCreates :
          create_sport_config_bulk(sport_id, bulk_create)
    \/ \E sport_id \in SportIds, soft_delete \in BOOLEAN : delete_sport(sport_id, soft_delete)

SpecCascade == Init /\ [][NextCascade]_vars

---------------------------------------------------------------------------
(* Concurrent bulk registration.  Each worker handles one request in its   *)
(* own session; every awaited statement of bulk_register_sports is a step  *)
(* that reads what is committed when it runs (READ COMMITTED).             *)

Finished(w, status) == [inflight[w] EXCEPT !.pc = "idle", !.status = status]

\* rows the in-progress requests may still insert
Pending == {w \in Workers : inflight[w].pc # "idle"}

RECURSIVE PendingRows(_)
PendingRows(ws) ==
    IF ws = {} THEN 0
    ELSE LET w == CHOOSE x \in ws : TRUE
         IN  Len(inflight[w].request.sports) + PendingRows(ws \ {w})

\* POST /tenant/{tenant_id}/sports arrives at worker w
bulk_register_sports_begin(w, tenant_id, request) ==
    /\ inflight[w].pc = "idle"
    /\ Len(request.sports) >= 1
    /\ seq.mapping - 1 + PendingRows(Pending) + Len(request.sports) <= MaxMappings
    /\ inflight' = [inflight EXCEPT ![w] =
                       [pc |-> "validate_exists", tenant_id |-> tenant_id,
                        request |-> request, status |-> 0, overlapped |-> FALSE]]
    /\ UNCHANGED <<store, seq, req, resp>>

\* await crud_tenant.validate_exists(...)
bulk_register_sports_validate_exists(w) ==
    /\ inflight[w].pc = "validate_exists"
    /\ inflight' = [inflight EXCEPT ![w] =
                       IF CRUDTenant_validate_exists(inflight[w].tenant_id)
                       THEN [@ EXCEPT !.pc = "validate_sports_exist"]
                       ELSE Finished(w, 404)]
    /\ UNCHANGED <<store, seq, req, resp>>

\* await crud_sport.validate_sports_exist(...) and the length comparison
bulk_register_sports_validate_sports_exist(w) ==
    /\ inflight[w].pc = "validate_sports_exist"
    /\ LET sport_ids == sport_ids_of(inflight[w].request)
       IN  inflight' = [inflight EXCEPT ![w] =
                          IF Cardinality(CRUDSport_validate_sports_exist(sport_ids)[1])
                                = Cardinality(sport_ids)
                          THEN [@ EXCEPT !.pc = "count_existing_mappings"]
                          ELSE Finished(w, 404)]
    /\ UNCHANGED <<store, seq, req, resp>>

\* await crud_mapping.count_existing_mappings(...)
bulk_register_sports_count_existing_mappings(w) ==
    /\ inflight[w].pc = "count_existing_mappings"
    /\ inflight' = [inflight EXCEPT ![w] =
                       IF CRUDMapping_count_existing_mappings(
                              inflight[w].tenant_id, sport_ids_of(inflight[w].request)) > 0
                       THEN Finished(w, 400)
                       ELSE [@ EXCEPT !.pc = "bulk_create"]]
    /\ UNCHANGED <<store, seq, req, resp>>

\* await crud_mapping.bulk_create(...): add_all, commit, refresh
bulk_register_sports_bulk_create(w) ==
    /\ inflight[w].pc = "bulk_create"
    /\ LET r == CRUDMapping_bulk_create(
                    mapping_data_list(inflight[w].tenant_id, inflight[w].request))
       IN  /\ mappings' = r.table
           /\ seq' = IF r.status = 201
                     THEN [seq EXCEPT !.mapping = @ + Len(inflight[w].request.sports)]
                     ELSE seq
           /\ inflight' = [inflight EXCEPT ![w] =
                              [Finished(w, r.status) EXCEPT !.overlapped =
                                  \E v \in Workers \ {w} : inflight[v].pc = "bulk_create"]]
    /\ UNCHANGED <<tenants, sports, configs, req, resp>>

ConcRequests ==
    {[sports |-> <<SportMappingItem(a)>>, created_by |-> NoneInt] : a \in SportIds}

NextConc ==
    \/ \E body \in MapTenantBodies : create_tenant(body)
    \/ \E body \in MapSportBodies : create_sport(body)
    \/ \E w \in Workers, tenant_id \in TenantIds, request \in ConcRequests :
          bulk_register_sports_begin(w, tenant_id, request)
    \/ \E w \in Workers : bulk_register_sports_validate_exists(w)
    \/ \E w \in Workers : bulk_register_sports_validate_sports_exist(w)
    \/ \E w \in Workers : bulk_register_sports_count_existing_mappings(w)
    \/ \E w \in Workers : bulk_register_sports_bulk_create(w)

SpecConc == Init /\ [][NextConc]_vars

---------------------------------------------------------------------------
(* The tenant endpoints with the two endpoints of main.py.                 *)
NextEnvelope ==
    \/ NextTenant
    \/ read_root
    \/ health_check

SpecEnvelope == Init /\ [][NextEnvelope]_vars

---------------------------------------------------------------------------
(* Creates and renames with codes of every kind: alphanumeric, with an     *)
(* underscore, with another character, with both.                          *)
FormatCodes == {<<"a">>, <<"a", "_">>, <<"-">>, <<"a", "_", "-">>}

NextFormat ==
    \/ \E c \in FormatCodes : create_tenant(TenantBody(c, None))
    \/ \E c \in FormatCodes : create_sport(SportBody(c, <<"s">>, None))
    \/ \E tenant_id \in TenantIds, c \in FormatCodes :
          update_tenant(tenant_id, [tenant_code |-> c])
    \/ \E sport_id \in SportIds, c \in FormatCodes :
          update_sport(sport_id, [sport_code |-> c])

SpecFormat == Init /\ [][NextFormat]_vars

---------------------------------------------------------------------------
(* Soft and hard deletes of tenants and sports that have, or have not,     *)
(* mapping and config rows.                                                *)
NextDelete ==
    \/ \E body \in MapTenantBodies : create_tenant(body)
    \/ \E body \in MapSportBodies : create_sport(body)
    \/ \E request \in ConcRequests : register_sports(1, request)
    \/ \E bulk_create \in ConfigBulkCreates : create_sport_config_bulk(1, bulk_create)
    \/ \E tenant_id \in TenantIds, soft_delete \in BOOLEAN :
          delete_tenant(tenant_id, soft_delete)
    \/ \E sport_id \in SportIds, soft_delete \in BOOLEAN : delete_sport(sport_id, soft_delete)

SpecDelete == Init /\ [][NextDelete]_vars

---------------------------------------------------------------------------
(* Registration of a single sport.                                         *)
NextSingle ==
    \/ \E body \in MapTenantBodies : create_tenant(body)
    \/ \E body \in MapSportBodies : create_sport(body)
    \/ \E tenant_id \in TenantIds, request \in ConcRequests :
          register_sports(tenant_id, request)
    \/ \E tenant_id \in TenantIds, sport_id \in SportIds, status \in {None, "inactive"} :
          register_sport(tenant_id, [sport_id |-> sport_id, status |-> status,
                                     desciption |-> NoneText, created_by |-> NoneInt])
    \/ \E tenant_id \in TenantIds : delete_tenant(tenant_id, TRUE)
    \/ \E sport_id \in SportIds : delete_sport(sport_id, TRUE)

SpecSingle == Init /\ [][NextSingle]_vars

---------------------------------------------------------------------------
(* Creates, renames and deletes, soft and hard, of tenants and sports.     *)
NextFrozen ==
    \/ \E c \in {<<"a">>, <<"b">>} : create_tenant(TenantBody(c, None))
    \/ \E tenant_id \in TenantIds \ {0} : update_tenant(tenant_id, [tenant_code |-> <<"a">>])
    \/ \E tenant_id \in TenantIds \ {0}, soft_delete \in BOOLEAN :
          delete_tenant(tenant_id, soft_delete)
    \/ \E body \in MapSportBodies : create_sport(body)
    \/ \E sport_id \in SportIds \ {0} : update_sport(sport_id, [sport_code |-> <<"a">>])
    \/ \E sport_id \in SportIds \ {0}, soft_delete \in BOOLEAN :
          delete_sport(sport_id, soft_delete)

SpecFrozen == Init /\ [][NextFrozen]_vars

---------------------------------------------------------------------------
(* Register requests, mapping updates and soft deletes.                    *)
NextUnregister ==
    \/ \E body \in MapTenantBodies : create_tenant(body)
    \/ \E body \in MapSportBodies : create_sport(body)
    \/ \E tenant_id \in TenantIds, request \in BulkRequests :
          register_sports(tenant_id, request)
    \/ \E sport_id \in SportIds \ {0}, status \in {"inactive", "active"} :
          update_sport_mapping(1, sport_id, [status |-> status])
    \/ delete_tenant(1, TRUE)
    \/ \E sport_id \in SportIds \ {0} : delete_sport(sport_id, TRUE)

SpecUnregister == Init /\ [][NextUnregister]_vars

---------------------------------------------------------------------------
(* Tenant lists filtered by sport.                                         *)

\* GET /tenant?sports_id=..., with a page that holds every tenant
SportsIdQueries ==
    [skip : {0}, limit : {MaxPage}, status : {None}, search_id : {NoneInt},
     search : {NoneText}, include_deleted : {FALSE}, sports_id : SportIds \ {0}]

NextTenantSports ==
    \/ \E body \in MapTenantBodies : create_tenant(body)
    \/ \E body \in MapSportBodies : create_sport(body)
    \/ \E tenant_id \in TenantIds, request \in BulkRequests :
          register_sports(tenant_id, request)
    \/ \E query_params \in SportsIdQueries : get_tenants(query_params)

SpecTenantSports == Init /\ [][NextTenantSports]_vars

---------------------------------------------------------------------------
(* Bulk creates next to other requests.  A register request runs statement *)
(* by statement at a worker; a config bulk create and a sport delete are   *)
(* one transaction each and may commit between a worker's statements.      *)

\* register requests for the sports 1..n
AtomicRequests ==
    {[sports |-> [i \in 1..n |-> SportMappingItem(i)], created_by |-> NoneInt] :
        n \in 1..MaxBatch}

AtomicConfigCreates ==
    {[configs |-> [i \in 1..n |-> [config_type |-> "rules", status |-> "active"]]] :
        n \in {MaxConfigs}}

NextAtomic ==
    \/ \E body \in MapTenantBodies : create_tenant(body)
    \/ \E body \in MapSportBodies : create_sport(body)
    \/ \E w \in Workers, request \in AtomicRequests :
          bulk_register_sports_begin(w, 1, request)
    \/ \E w \in Workers : bulk_register_sports_validate_exists(w)
    \/ \E w \in Workers : bulk_register_sports_validate_sports_exist(w)
    \/ \E w \in Workers : bulk_register_sports_count_existing_mappings(w)
    \/ \E w \in Workers : bulk_register_sports_bulk_create(w)
    \/ \E sport_id \in {2} : delete_sport_txn(sport_id, FALSE)
    \/ \E sport_id \in {0, 1}, bulk_create \in AtomicConfigCreates :
          create_sport_config_bulk_txn(sport_id, bulk_create)

SpecAtomic == Init /\ [][NextAtomic]_vars

---------------------------------------------------------------------------
(* Register requests next to deletes, soft and hard, of the tenant and of  *)
(* the sports, and next to config bulk creates.                            *)
NextRace ==
    \/ \E body \in MapTenantBodies : create_tenant(body)
    \/ \E body \in MapSportBodies : create_sport(body)
    \/ \E w \in Workers, request \in AtomicRequests :
          bulk_register_sports_begin(w, 1, request)
    \/ \E w \in Workers : bulk_register_sports_validate_exists(w)
    \/ \E w \in Workers : bulk_register_sports_validate_sports_exist(w)
    \/ \E w \in Workers : bulk_register_sports_count_existing_mappings(w)
    \/ \E w \in Workers : bulk_register_sports_bulk_create(w)
    \/ \E soft_delete \in BOOLEAN : delete_tenant_txn(1, soft_delete)
    \/ \E soft_delete \in BOOLEAN : delete_sport_txn(2, soft_delete)
    \/ \E bulk_create \in ConfigBulkCreates : create_sport_config_bulk_txn(2, bulk_create)

SpecRace == Init /\ [][NextRace]_vars

---------------------------------------------------------------------------
(* Create requests of two sessions, one statement at a time: the lookup by *)
(* code and the insert with its commit are separate steps.                 *)

\* create requests that passed the lookup or have yet to make it
Creating(kind) ==
    {w \in Workers : inflight[w].pc # "idle" /\ inflight[w].kind = kind}

\* POST /tenant: TenantCreate(**body) and the session of get_db
create_tenant_begin(w, body) ==
    /\ inflight[w].pc = "idle"
    /\ seq.tenant + Cardinality(Creating("tenant")) <= MaxTenants
    /\ LET tenant_in == TenantCreate(body)
       IN  inflight' = [inflight EXCEPT ![w] =
               [pc |-> IF tenant_in.ok THEN "get_by_code" ELSE "idle",
                kind |-> "tenant", obj_in |-> tenant_in.value,
                status |-> IF tenant_in.ok THEN 0 ELSE 422,
                free |-> CRUDTenant_get_by_code(tenant_in.value.tenant_code) = {}]]
    /\ UNCHANGED <<store, seq, req, resp>>

\* TenantService.create_tenant: the lookup by code
create_tenant_get_by_code(w) ==
    /\ inflight[w].pc = "get_by_code"
    /\ inflight[w].kind = "tenant"
    /\ inflight' = [inflight EXCEPT ![w] =
                       IF CRUDTenant_get_by_code(inflight[w].obj_in.tenant_code) # {}
                       THEN Finished(w, 400)
                       ELSE [@ EXCEPT !.pc = "create"]]
    /\ UNCHANGED <<store, seq, req, resp>>

\* TenantService.create_tenant: uuid4 and crud_tenant.create
create_tenant_create(w) ==
    /\ inflight[w].pc = "create"
    /\ inflight[w].kind = "tenant"
    /\ LET tenant_in == inflight[w].obj_in
           r == CRUDTenant_create(IF tenant_in.tenant_uuid = None
                                  THEN [tenant_in EXCEPT !.tenant_uuid = uuid4(seq.tenant)]
                                  ELSE tenant_in)
       IN  /\ tenants' = r.table
           /\ seq' = IF r.status = 201 THEN [seq EXCEPT !.tenant = @ + 1] ELSE seq
           /\ inflight' = [inflight EXCEPT ![w] = Finished(w, r.status)]
    /\ UNCHANGED <<sports, configs, mappings, req, resp>>

\* POST /sport: SportCreate(**body) and the session of get_db
create_sport_begin(w, body) ==
    /\ inflight[w].pc = "idle"
    /\ seq.sport + Cardinality(Creating("sport")) <= MaxSports
    /\ LET sport_in == SportCreate(body)
       IN  inflight' = [inflight EXCEPT ![w] =
               [pc |-> IF sport_in.ok THEN "get_by_code" ELSE "idle",
                kind |-> "sport", obj_in |-> sport_in.value,
                status |-> IF sport_in.ok THEN 0 ELSE 422,
                free |-> CRUDSport_get_by_code(sport_in.value.sport_code) = {}]]
    /\ UNCHANGED <<store, seq, req, resp>>

\* SportService.create_sport: the lookup by code
create_sport_get_by_code(w) ==
    /\ inflight[w].pc = "get_by_code"
    /\ inflight[w].kind = "sport"
    /\ inflight' = [inflight EXCEPT ![w] =
                       IF CRUDSport_get_by_code(inflight[w].obj_in.sport_code) # {}
                       THEN Finished(w, 400)
                       ELSE [@ EXCEPT !.pc = "create"]]
    /\ UNCHANGED <<store, seq, req, resp>>

\* SportService.create_sport: crud_sport.create
create_sport_create(w) ==
    /\ inflight[w].pc = "create"
    /\ inflight[w].kind = "sport"
    /\ LET r == CRUDSport_create(inflight[w].obj_in)
       IN  /\ sports' = r.table
           /\ seq' = IF r.status = 201 THEN [seq EXCEPT !.sport = @ + 1] ELSE seq
           /\ inflight' = [inflight EXCEPT ![w] = Finished(w, r.status)]
    /\ UNCHANGED <<tenants, configs, mappings, req, resp>>

NextCreateRace ==
    \/ \E w \in Workers, body \in TenantBodies : create_tenant_begin(w, body)
    \/ \E w \in Workers : create_tenant_get_by_code(w)
    \/ \E w \in Workers : create_tenant_create(w)
    \/ \E w \in Workers, body \in SportBodies : create_sport_begin(w, body)
    \/ \E w \in Workers : create_sport_get_by_code(w)
    \/ \E w \in Workers : create_sport_create(w)

SpecCreateRace == Init /\ [][NextCreateRace]_vars

---------------------------------------------------------------------------
(* Properties of the tenant and sport endpoints.                           *)

Live(table, id) == id \in DOMAIN table /\ ~table[id].is_deleted
SoftDeleted(table) == {i \in DOMAIN table : table[i].is_deleted}
IdsOf(items) == {r.id : r \in items}

\* the tenants a filter set selects, with no skip / limit applied
TenantsMatching(q) ==
    {i \in DOMAIN tenants :
        /\ (~q.include_deleted => ~tenants[i].is_deleted)
        /\ (q.status # None => tenants[i].status = q.status)
        /\ (q.search_id # NoneInt => i = q.search_id)
        /\ (q.search # NoneText =>
               \/ ilike(tenants[i].name, search_pattern(q.search))
               \/ ilike(tenants[i].tenant_code, search_pattern(q.search)))}

\* the sports a filter set selects, with no skip / limit applied
SportsMatching(q) ==
    {i \in DOMAIN sports :
        /\ (~q.include_deleted => ~sports[i].is_deleted)
        /\ (q.status # None => sports[i].status = q.status)
        /\ (q.category # None => sports[i].category = q.category)
        /\ (q.search_id # NoneInt => i = q.search_id)
        /\ (q.search # NoneText =>
               \/ ilike(sports[i].sport_name, search_pattern(q.search))
               \/ ilike(sports[i].sport_code, search_pattern(q.search)))}

Unfiltered(q) == q.status = None /\ q.search_id = NoneInt /\ q.search = NoneText

\* C1 (get part): get-by-id and get-by-code of a soft-deleted tenant return
\* NotFound.
C1_GetSoftDeleted ==
    /\ (req.op = "get_tenant" /\ req.tenant_id \in SoftDeleted(tenants))
          => resp.status = 404
    /\ (req.op = "get_tenant_by_code"
          /\ \E i \in SoftDeleted(tenants) : tenants[i].tenant_code = req.tenant_code)
          => resp.status = 404

\* C1: after tenant X is soft-deleted, get-by-id of X and get-by-code of X's
\* code return NotFound, a tenant list with include_deleted=true contains X
\* and a tenant list with include_deleted=false does not contain X.
C1_SoftDeleteVisibility ==
    /\ C1_GetSoftDeleted
    /\ (req.op = "get_tenants" /\ Unfiltered(req.query_params))
          => /\ resp.status = 200
             /\ \A x \in SoftDeleted(tenants) :
                   /\ ~req.query_params.include_deleted => x \notin IdsOf(resp.items)
                   /\ (/\ req.query_params.include_deleted
                       /\ req.query_params.skip = 0
                       /\ req.query_params.limit >= Cardinality(DOMAIN tenants))
                         => x \in IdsOf(resp.items)

\* C7 (sports): total_count of a sport list is the number of sports its
\* filter set selects, and has_next_page is (skip + limit < total_count).
C7_SportTotalCount ==
    req.op = "get_sports"
      => /\ resp.status = 200
         /\ resp.total_count = Cardinality(SportsMatching(req.query_params))
         /\ resp.has_next_page
              = (req.query_params.skip + req.query_params.limit < resp.total_count)

\* C7: for every filter set and every skip / limit, the total_count a
\* tenant or sport list returns is the number of rows the filter set selects
\* with no skip / limit applied, and has_next_page is
\* (skip + limit < total_count).
C7_TotalCount ==
    /\ C7_SportTotalCount
    /\ req.op = "get_tenants"
         => /\ resp.status = 200
            /\ resp.total_count = Cardinality(TenantsMatching(req.query_params))
            /\ resp.has_next_page
                 = (req.query_params.skip + req.query_params.limit < resp.total_count)

\* the row an update leaves behind: the fields present in the body take the
\* body's value (a code in its upper-cased form), every other field keeps
\* the value it had
Overridden(old, body, code) ==
    [f \in DOMAIN old |->
        IF f \in DOMAIN body THEN (IF f = code THEN upper(body[f]) ELSE body[f])
        ELSE old[f]]

\* C8: an update that succeeds applies exactly the fields explicitly present
\* in the partial input and leaves every other field of the row unchanged;
\* all other rows and all other tables are unchanged (updating only status
\* on a tenant leaves name, tenant_code, tenant_uuid, email and is_deleted
\* as they were).
C8_PartialUpdate ==
    [][(req'.op = "update_tenant" /\ resp'.status = 200)
          => /\ tenants' = [tenants EXCEPT ![req'.tenant_id] =
                               Overridden(tenants[req'.tenant_id], req'.body, "tenant_code")]
             /\ resp'.items = {tenants'[req'.tenant_id]}
             /\ UNCHANGED <<sports, configs, mappings>>]_vars

\* a status-only update has succeeded on one of two stored tenants
C8_Witness ==
    /\ req.op = "update_tenant"
    /\ DOMAIN req.body = {"status"}
    /\ resp.status = 200
    /\ Cardinality(DOMAIN tenants) = 2
    /\ tenants[req.tenant_id].status = "inactive"
    /\ tenants[req.tenant_id].email = "e1"

\* C10 (tenant): get-by-id returns the tenant when it is live; get, update
\* and delete of an absent or soft-deleted tenant id return 404 and change
\* nothing.
C10_Tenant ==
    [][/\ (req'.op = "get_tenant" /\ Live(tenants, req'.tenant_id))
             => resp' = Response(200, {tenants[req'.tenant_id]})
       /\ (/\ req'.op \in {"get_tenant", "update_tenant", "delete_tenant"}
           /\ ~Live(tenants, req'.tenant_id)
           /\ req'.op = "update_tenant" => TenantUpdate(req'.body).ok)
             => (resp'.status = 404 /\ UNCHANGED store)]_vars

\* C10: for Tenant and Sport, get-by-id returns the row when it exists and
\* is not soft-deleted; get-by-id, update and delete (soft or hard) addressed
\* to an id that is absent or soft-deleted return NotFound (404) and leave
\* the store unchanged.
C10_NotFound ==
    [][/\ (req'.op = "get_tenant" /\ Live(tenants, req'.tenant_id))
             => resp' = Response(200, {tenants[req'.tenant_id]})
       /\ (req'.op = "get_sport" /\ Live(sports, req'.sport_id))
             => resp' = Response(200, {sports[req'.sport_id]})
       /\ (/\ req'.op \in {"get_tenant", "update_tenant", "delete_tenant"}
           /\ ~Live(tenants, req'.tenant_id)
           /\ req'.op = "update_tenant" => TenantUpdate(req'.body).ok)
             => (resp'.status = 404 /\ UNCHANGED store)
       /\ (/\ req'.op \in {"get_sport", "update_sport", "delete_sport"}
           /\ ~Live(sports, req'.sport_id)
           /\ req'.op = "update_sport" => SportUpdate(req'.body).ok)
             => (resp'.status = 404 /\ UNCHANGED store)]_vars

HoldingTenantCode(table, code) == {i \in DOMAIN table : table[i].tenant_code = upper(code)}
HoldingSportCode(table, code) == {i \in DOMAIN table : table[i].sport_code = upper(code)}

\* C2: for tenants and for sports, of two sequential create requests whose
\* codes are equal after upper-casing the first, issued when no row holds
\* the code (nor the tenant_uuid it carries), succeeds and stores exactly one
\* row with the upper-cased code, and the second returns Conflict (400) and
\* stores nothing: one success, one Conflict, one row with that code.
C2_DuplicateCode ==
    [][/\ (/\ req'.op = "create_tenant"
           /\ HoldingTenantCode(tenants, req'.body.tenant_code) = {}
           /\ \A i \in DOMAIN tenants : tenants[i].tenant_uuid # req'.body.tenant_uuid)
             => /\ resp'.status = 201
                /\ Cardinality(HoldingTenantCode(tenants', req'.body.tenant_code)) = 1
       /\ (/\ req.op = "create_tenant" /\ resp.status = 201
           /\ req'.op = "create_tenant"
           /\ upper(req'.body.tenant_code) = upper(req.body.tenant_code))
             => /\ resp'.status = 400
                /\ tenants' = tenants
                /\ Cardinality(HoldingTenantCode(tenants', req'.body.tenant_code)) = 1
       /\ (/\ req'.op = "create_sport"
           /\ HoldingSportCode(sports, req'.body.sport_code) = {})
             => /\ resp'.status = 201
                /\ Cardinality(HoldingSportCode(sports', req'.body.sport_code)) = 1
       /\ (/\ req.op = "create_sport" /\ resp.status = 201
           /\ req'.op = "create_sport"
           /\ upper(req'.body.sport_code) = upper(req.body.sport_code))
             => /\ resp'.status = 400
                /\ sports' = sports
                /\ Cardinality(HoldingSportCode(sports', req'.body.sport_code)) = 1]_vars

\* a create with code "A" was refused after a create with code "a" stored
\* the only row holding "A"
C2_Witness ==
    /\ req.op = "create_tenant"
    /\ req.body.tenant_code = <<"A">>
    /\ resp.status = 400
    /\ \E i \in DOMAIN tenants : tenants[i].tenant_code = <<"A">> /\ tenants[i].name = <<"a", "1">>
    /\ Cardinality(HoldingTenantCode(tenants, <<"a">>)) = 1
    /\ Cardinality(DOMAIN sports) = 1

---------------------------------------------------------------------------
(* Properties of the tenant-sport mappings.                                *)

MappingsOf(table, tenant_id, sport_id) ==
    {i \in DOMAIN table : table[i].tenant_id = tenant_id /\ table[i].sport_id = sport_id}

Requested(request) == {request.sports[i].sport_id : i \in DOMAIN request.sports}

\* the requested sports that already have a mapping row for the tenant
AlreadyMapped(tenant_id, request) ==
    {a \in Requested(request) : MappingsOf(mappings, tenant_id, a) # {}}

\* C3 as stated: if a mapping row for (T, A) exists, a bulk-register request
\* for T that includes A returns Conflict (400), creates no mapping row for
\* any sport in the request and leaves exactly one mapping row for (T, A).
C3_ConflictAsStated ==
    [][(req'.op = "register_sports" /\ AlreadyMapped(req'.tenant_id, req'.request) # {})
          => /\ resp'.status = 400
             /\ mappings' = mappings
             /\ \A a \in AlreadyMapped(req'.tenant_id, req'.request) :
                   Cardinality(MappingsOf(mappings', req'.tenant_id, a)) = 1]_vars

\* C3 amended: if a mapping row for (T, A) exists, a bulk-register request
\* for T that includes A creates no mapping row and leaves the mapping rows
\* as they were; it returns Conflict (400) when T and every requested sport
\* exist and are not soft-deleted, and NotFound (404) otherwise.
C3_ConflictOrNotFound ==
    [][(req'.op = "register_sports" /\ AlreadyMapped(req'.tenant_id, req'.request) # {})
          => /\ mappings' = mappings
             /\ resp'.status =
                   IF /\ Live(tenants, req'.tenant_id)
                      /\ \A a \in Requested(req'.request) : Live(sports, a)
                   THEN 400 ELSE 404]_vars

\* a request for a mapped sport and an unmapped one was refused with 400 and
\* the unmapped sport still has no row
C3_Witness ==
    /\ req.op = "register_sports"
    /\ resp.status = 400
    /\ \E a, b \in Requested(req.request) :
          /\ Cardinality(MappingsOf(mappings, req.tenant_id, a)) = 1
          /\ MappingsOf(mappings, req.tenant_id, b) = {}

\* C4: bulk_register_sports(T, sports) returns NotFound (404) and creates no
\* mapping row when a requested sport is absent or soft-deleted; a request
\* for a live T whose sports all exist, are not deleted and have no mapping
\* for T succeeds and creates exactly one mapping row per requested sport.
C4_AllOrNothing ==
    [][/\ (/\ req'.op = "register_sports"
           /\ \E a \in Requested(req'.request) : ~Live(sports, a))
             => (resp'.status = 404 /\ mappings' = mappings)
       /\ (/\ req'.op = "register_sports"
           /\ Live(tenants, req'.tenant_id)
           /\ \A a \in Requested(req'.request) : Live(sports, a)
           /\ AlreadyMapped(req'.tenant_id, req'.request) = {})
             => /\ resp'.status = 201
                /\ \A i \in DOMAIN mappings : i \in DOMAIN mappings' /\ mappings'[i] = mappings[i]
                /\ \A a \in Requested(req'.request) :
                      Cardinality(MappingsOf(mappings', req'.tenant_id, a)) = 1
                /\ Cardinality(DOMAIN mappings' \ DOMAIN mappings)
                      = Cardinality(Requested(req'.request))]_vars

\* C5: in every state reached by sequentially executed bulk-register,
\* mapping-update and delete requests at most one mapping row exists for
\* each (tenant_id, sport_id) pair.
C5_OneMappingPerPair ==
    \A i, j \in DOMAIN mappings :
        (mappings[i].tenant_id = mappings[j].tenant_id
            /\ mappings[i].sport_id = mappings[j].sport_id) => i = j

\* C9: hard-deleting Sport S succeeds and removes S, every SportConfig row
\* with sport_id = S and every TenantSportsMapping row with sport_id = S,
\* leaving the rows of other sports untouched.
C9_HardDeleteCascades ==
    [][(/\ req'.op = "delete_sport"
        /\ ~req'.soft_delete
        /\ Live(sports, req'.sport_id))
          => /\ resp'.status = 200
             /\ sports' = Without(sports, req'.sport_id)
             /\ configs' = [i \in {k \in DOMAIN configs : configs[k].sport_id # req'.sport_id}
                               |-> configs[i]]
             /\ mappings' = [i \in {k \in DOMAIN mappings :
                                       mappings[k].sport_id # req'.sport_id}
                               |-> mappings[i]]]_vars

\* C6: no lock and no unique constraint stands between the existing-mapping
\* count and the insert: a bulk-register request that has passed the count
\* always commits, succeeding with one new row per requested sport, whatever
\* another request has committed in between; so two requests for the same
\* (tenant, sport) pair that both count before either commits both succeed
\* and leave two mapping rows for the pair.
C6_RaceNotPrevented ==
    [][\A w \in Workers :
          (inflight[w].pc = "bulk_create" /\ inflight'[w].pc = "idle")
             => /\ inflight'[w].status = 201
                /\ Cardinality(DOMAIN mappings')
                     = Cardinality(DOMAIN mappings) + Len(inflight[w].request.sports)
                /\ \A a \in Requested(inflight[w].request) :
                      Cardinality(MappingsOf(mappings', inflight[w].tenant_id, a))
                        > Cardinality(MappingsOf(mappings, inflight[w].tenant_id, a))]_vars

\* both workers registered the same sport for the same tenant, one of them
\* committed while the other had counted and not yet committed, both
\* succeeded and the pair has two rows
C6_Witness ==
    /\ \A w \in Workers : inflight[w].pc = "idle" /\ "status" \in DOMAIN inflight[w]
    /\ \A w \in Workers : inflight[w].status = 201
    /\ \E w \in Workers : inflight[w].overlapped
    /\ inflight[1].tenant_id = inflight[2].tenant_id
    /\ inflight[1].request = inflight[2].request
    /\ \A a \in Requested(inflight[1].request) :
          Cardinality(MappingsOf(mappings, inflight[1].tenant_id, a)) = 2
    /\ Cardinality(DOMAIN mappings) = 2

---------------------------------------------------------------------------
(* Properties of the unique codes.                                         *)

UniqueCodes ==
    /\ \A i, j \in DOMAIN tenants :
          i # j => /\ tenants[i].tenant_code # tenants[j].tenant_code
                   /\ tenants[i].tenant_uuid # tenants[j].tenant_uuid
    /\ \A i, j \in DOMAIN sports : i # j => sports[i].sport_code # sports[j].sport_code

\* the rows other than id that hold the upper-cased code
OthersHoldingTenantCode(code, id) == HoldingTenantCode(tenants, code) \ {id}
OthersHoldingSportCode(code, id) == HoldingSportCode(sports, code) \ {id}

RenamesTenant(r) ==
    r.op = "update_tenant" /\ Live(tenants, r.tenant_id) /\ "tenant_code" \in DOMAIN r.body
RenamesSport(r) ==
    r.op = "update_sport" /\ Live(sports, r.sport_id) /\ "sport_code" \in DOMAIN r.body

\* C11: in every reachable state no two Tenant rows share a tenant_code or
\* a tenant_uuid and no two Sport rows share a sport_code, soft-deleted rows
\* included; a create, or a rename of a live row, to a code held by another
\* row is rejected with 400 and changes nothing, whether the holder is
\* soft-deleted or live.
C11_UniqueAcrossDeleted ==
    /\ []UniqueCodes
    /\ [][/\ (req'.op = "create_tenant"
                /\ HoldingTenantCode(tenants, req'.body.tenant_code) # {})
             => (resp'.status = 400 /\ UNCHANGED store)
          /\ (req'.op = "create_sport"
                /\ HoldingSportCode(sports, req'.body.sport_code) # {})
             => (resp'.status = 400 /\ UNCHANGED store)
          /\ (RenamesTenant(req')
                /\ OthersHoldingTenantCode(req'.body.tenant_code, req'.tenant_id) # {})
             => (resp'.status = 400 /\ UNCHANGED store)
          /\ (RenamesSport(req')
                /\ OthersHoldingSportCode(req'.body.sport_code, req'.sport_id) # {})
             => (resp'.status = 400 /\ UNCHANGED store)]_vars

\* a create was refused with 400 for a code that only a soft-deleted row holds
C11_Witness ==
    /\ req.op = "create_tenant"
    /\ resp.status = 400
    /\ HoldingTenantCode(tenants, req.body.tenant_code) # {}
    /\ \A i \in HoldingTenantCode(tenants, req.body.tenant_code) : tenants[i].is_deleted
    /\ \E i \in DOMAIN sports : sports[i].is_deleted

\* the fields of an update body other than the code all carry a value
OtherFieldsGiven(body, code) == \A f \in DOMAIN body \ {code} : body[f] # NoneOf(f)

\* C12: an update of a live tenant or sport that changes its code to a
\* value held by a different row returns Conflict (400) and changes nothing;
\* an update whose code equals the row's own current code is accepted (200)
\* and leaves the code as it was.
C12_RenameConflict ==
    [][/\ (RenamesTenant(req')
             /\ OthersHoldingTenantCode(req'.body.tenant_code, req'.tenant_id) # {})
          => (resp'.status = 400 /\ UNCHANGED store)
       /\ (RenamesTenant(req')
             /\ upper(req'.body.tenant_code) = tenants[req'.tenant_id].tenant_code
             /\ OtherFieldsGiven(req'.body, "tenant_code"))
          => /\ resp'.status = 200
             /\ tenants'[req'.tenant_id].tenant_code = tenants[req'.tenant_id].tenant_code
             /\ \A i \in DOMAIN tenants \ {req'.tenant_id} : tenants'[i] = tenants[i]
       /\ (RenamesSport(req')
             /\ OthersHoldingSportCode(req'.body.sport_code, req'.sport_id) # {})
          => (resp'.status = 400 /\ UNCHANGED store)
       /\ (RenamesSport(req')
             /\ upper(req'.body.sport_code) = sports[req'.sport_id].sport_code
             /\ OtherFieldsGiven(req'.body, "sport_code"))
          => /\ resp'.status = 200
             /\ sports'[req'.sport_id].sport_code = sports[req'.sport_id].sport_code
             /\ \A i \in DOMAIN sports \ {req'.sport_id} : sports'[i] = sports[i]]_vars

\* a rename of tenant 2 to the code of tenant 1 was refused with 400, both
\* rows keeping their codes
C12_Witness ==
    /\ req.op = "update_tenant"
    /\ resp.status = 400
    /\ Live(tenants, req.tenant_id)
    /\ "tenant_code" \in DOMAIN req.body
    /\ OthersHoldingTenantCode(req.body.tenant_code, req.tenant_id) # {}
    /\ tenants[req.tenant_id].tenant_code # upper(req.body.tenant_code)


---------------------------------------------------------------------------
(* Failed requests.                                                        *)

\* the response of the request just handled is an error
Failed(status) == status >= 400

\* C13: every request that ends in an error response (404, 400, 422 or an
\* unhandled failure, 500) leaves all four tables exactly as they were
\* before the request.
C13_ErrorLeavesStore == [][Failed(resp'.status) => UNCHANGED store]_vars

\* C13, without the config bulk create: the other endpoints leave the
\* tables unchanged whenever they answer with an error.
C13_OtherEndpoints ==
    [][req'.op # "create_sport_config_bulk" /\ Failed(resp'.status)
          => UNCHANGED store]_vars

---------------------------------------------------------------------------
(* Atomic bulk creates.                                                    *)

\* the rows of table' that table does not have
Added(old, new) == DOMAIN new \ DOMAIN old

\* table' is table with one row per entry of the batch appended, in order
WholeBatch(old, new, first, n) ==
    /\ Added(old, new) = first..(first + n - 1)
    /\ \A k \in DOMAIN old : new[k] = old[k]

\* C14: a mapping bulk create and a sport-config bulk create store all of
\* their rows in one step or none of them (a config bulk create for a sport
\* id that does not exist stores nothing), mapping rows appear by no other
\* step, so no state another request can read holds part of a batch.
C14_BulkCreateAtomic ==
    [][/\ \A w \in Workers :
             (inflight[w].pc = "bulk_create" /\ inflight'[w].pc = "idle") =>
                 LET n == Len(inflight[w].request.sports)
                 IN  \/ mappings' = mappings /\ inflight'[w].status # 201
                     \/ /\ WholeBatch(mappings, mappings', seq.mapping, n)
                        /\ \A i \in 1..n :
                              /\ mappings'[seq.mapping + i - 1].tenant_id
                                    = inflight[w].tenant_id
                              /\ mappings'[seq.mapping + i - 1].sport_id
                                    = inflight[w].request.sports[i].sport_id
       /\ mappings' # mappings =>
             \E w \in Workers : inflight[w].pc = "bulk_create" /\ inflight'[w].pc = "idle"
       /\ configs' # configs =>
             /\ req'.op = "create_sport_config_bulk"
             /\ req'.sport_id \in DOMAIN sports
             /\ WholeBatch(configs, configs', seq.config, Len(req'.bulk_create.configs))
             /\ \A k \in Added(configs, configs') : configs'[k].sport_id = req'.sport_id]_vars

\* a register request of two sports failed at its commit, because its second
\* sport was deleted after it was validated, and stored no row, not even the
\* one of its first sport; another register request stored its row; a config
\* batch of MaxConfigs rows is stored whole
C14_Witness ==
    /\ \E w, v \in Workers :
          /\ inflight[w].pc = "idle" /\ inflight[v].pc = "idle"
          /\ "status" \in DOMAIN inflight[w] /\ "status" \in DOMAIN inflight[v]
          /\ inflight[w].status = 201
          /\ inflight[v].status = 500 /\ Len(inflight[v].request.sports) = 2
          /\ inflight[v].request.sports[1].sport_id \in DOMAIN sports
          /\ Cardinality(DOMAIN mappings) = Len(inflight[w].request.sports)
    /\ Cardinality(DOMAIN configs) = MaxConfigs

---------------------------------------------------------------------------
(* Tenant list filtered by sports_id.                                      *)

\* the live tenants with at least one mapping row for the sport
TenantsWithSport(sport_id) ==
    {i \in DOMAIN tenants :
        /\ ~tenants[i].is_deleted
        /\ \E k \in DOMAIN mappings :
              mappings[k].tenant_id = i /\ mappings[k].sport_id = sport_id}

\* C15: a tenant list filtered by sports_id returns exactly the tenants that
\* have at least one mapping row for that sport, each once, and total_count
\* counts each of them once, duplicate mapping rows or not.
C15_SportsIdFilter ==
    [][(req'.op = "get_tenants" /\ "sports_id" \in DOMAIN req'.query_params) =>
          /\ resp'.status = 200
          /\ IdsOf(resp'.items) = TenantsWithSport(req'.query_params.sports_id)
          /\ Cardinality(resp'.items)
                = Cardinality(TenantsWithSport(req'.query_params.sports_id))
          /\ resp'.total_count
                = Cardinality(TenantsWithSport(req'.query_params.sports_id))]_vars

---------------------------------------------------------------------------
(* Update of a mapping by tenant and sport.                                *)

\* C16: PUT /tenant/{tenant_id}/sports/{sport_id} is rejected, and the
\* mapping left unchanged, when the tenant or the sport is absent or
\* soft-deleted.
C16_UpdateValidatesParents ==
    [][(/\ req'.op = "update_sport_mapping"
        /\ \/ ~Live(tenants, req'.tenant_id)
           \/ ~Live(sports, req'.sport_id)) =>
          Failed(resp'.status) /\ UNCHANGED store]_vars

\* C17: update_mapping_by_tenant_sport(T, S, partial) has two outcomes only:
\* 404 with the store unchanged when (T, S) has no mapping row, or the update
\* applied to the row of (T, S), which is returned, with every other row as
\* it was.
C17_UpdateOutcomes ==
    [][req'.op = "update_sport_mapping" =>
          LET found == MappingsOf(mappings, req'.tenant_id, req'.sport_id)
          IN  IF found = {} THEN resp'.status = 404 /\ UNCHANGED store
              ELSE /\ resp'.status = 200
                   /\ UNCHANGED <<tenants, sports, configs>>
                   /\ \E k \in found :
                         /\ mappings' = [mappings EXCEPT ![k] =
                                            CRUDBase_update(mappings[k], req'.body)]
                         /\ resp'.items = {mappings'[k]}]_vars

---------------------------------------------------------------------------
(* Response bodies.                                                        *)

\* C18: the body of every response (success, 400 / 404 error, /health
\* and /) has exactly the keys data, msg and status.
C18_Envelope == req.op # "none" => BodyKeys(resp) = {"data", "msg", "status"}

---------------------------------------------------------------------------
(* Order of the checks of a register request.                              *)

\* the status the ordered checks lead to, empty being what an empty sports
\* list is answered with
FirstFailingCheck(tenant_id, request, empty) ==
    IF request.sports = <<>> THEN empty
    ELSE IF ~Live(tenants, tenant_id) THEN 404
    ELSE IF \E a \in Requested(request) : ~Live(sports, a) THEN 404
    ELSE IF AlreadyMapped(tenant_id, request) # {} THEN 400
    ELSE 201

\* a register request answers with the first failing check of the order
\* and inserts rows only when every check passes
OrderedChecks(empty) ==
    req'.op = "register_sports" =>
        LET expected == FirstFailingCheck(req'.tenant_id, req'.request, empty)
        IN  /\ resp'.status = expected
            /\ IF expected = 201
               THEN DOMAIN mappings' # DOMAIN mappings
               ELSE UNCHANGED store

---------------------------------------------------------------------------
(* De-duplication of the requested sport ids.                              *)

\* C20: a successful bulk_register_sports creates exactly one mapping row
\* for every distinct requested sport id, however often the request lists
\* it: the number of rows created is the number of distinct ids.
C20_Deduplicated ==
    [][(req'.op = "register_sports" /\ resp'.status = 201) =>
          /\ Cardinality(Added(mappings, mappings'))
                = Cardinality(Requested(req'.request))
          /\ \A a \in Requested(req'.request) :
                Cardinality({k \in Added(mappings, mappings') :
                                /\ mappings'[k].tenant_id = req'.tenant_id
                                /\ mappings'[k].sport_id = a}) = 1]_vars

---------------------------------------------------------------------------
(* Validation of a list of sport ids.                                      *)

\* C21: for every set of sport ids, in every state of the store,
\* validate_sports_exist returns the ids whose Sport row exists and is not
\* soft-deleted as valid and the missing or soft-deleted ones as invalid;
\* the two are disjoint and cover the input; an empty input gives two empty
\* results.
C21_ValidateSportsExist ==
    \A sport_ids \in SUBSET SportIds :
        LET r == CRUDSport_validate_sports_exist(sport_ids)
        IN  /\ r[1] = {i \in sport_ids : Live(sports, i)}
            /\ r[2] = {i \in sport_ids : ~Live(sports, i)}
            /\ r[1] \cap r[2] = {}
            /\ r[1] \cup r[2] = sport_ids
            /\ (sport_ids = {} => r = <<{}, {}>>)

\* a register request for a live tenant named a live and a soft-deleted
\* sport and was refused by the validation of its sports
C21_Witness ==
    /\ req.op = "register_sports"
    /\ resp.status = 404
    /\ Live(tenants, req.tenant_id)
    /\ \E a, b \in Requested(req.request) :
          /\ Live(sports, a)
          /\ b \in DOMAIN sports /\ sports[b].is_deleted

---------------------------------------------------------------------------
(* Format of the stored codes.                                             *)

\* upper-cased, and alphanumeric characters and underscores only
WellFormedCode(code) ==
    /\ code = upper(code)
    /\ \A i \in DOMAIN code : code[i] \in AlnumChars \cup {"_"}

\* C22: every tenant_code and sport_code a create or an update stored is
\* upper-cased and consists of alphanumeric characters and underscores only
\* (an input with any other character is rejected by validation).
C22_CodeFormat ==
    /\ \A i \in DOMAIN tenants : WellFormedCode(tenants[i].tenant_code)
    /\ \A i \in DOMAIN sports : WellFormedCode(sports[i].sport_code)

\* C22, the upper-casing alone
C22_UpperCased ==
    /\ \A i \in DOMAIN tenants : tenants[i].tenant_code = upper(tenants[i].tenant_code)
    /\ \A i \in DOMAIN sports : sports[i].sport_code = upper(sports[i].sport_code)

---------------------------------------------------------------------------
(* Soft and hard delete.                                                   *)

\* C23: a delete with soft_delete = true (the default of the flag) keeps the
\* Tenant or Sport row and changes only its is_deleted flag; its other
\* fields, every mapping row and every config row stay as they were.  A row
\* leaves its table only by a delete with soft_delete = false.
C23_SoftByDefault ==
    [][/\ (req'.op = "delete_tenant" /\ req'.soft_delete /\ resp'.status = 200) =>
             /\ req'.tenant_id \in DOMAIN tenants
             /\ tenants' = [tenants EXCEPT ![req'.tenant_id].is_deleted = TRUE]
             /\ UNCHANGED <<sports, configs, mappings>>
       /\ (req'.op = "delete_sport" /\ req'.soft_delete /\ resp'.status = 200) =>
             /\ req'.sport_id \in DOMAIN sports
             /\ sports' = [sports EXCEPT ![req'.sport_id].is_deleted = TRUE]
             /\ UNCHANGED <<tenants, configs, mappings>>
       /\ ~(DOMAIN tenants \subseteq DOMAIN tenants') =>
             req'.op = "delete_tenant" /\ ~req'.soft_delete
       /\ ~(DOMAIN sports \subseteq DOMAIN sports') =>
             req'.op = "delete_sport" /\ ~req'.soft_delete]_vars

\* a sport with a mapping row and a config row was soft-deleted
C23_Witness ==
    /\ req.op = "delete_sport" /\ req.soft_delete /\ resp.status = 200
    /\ sports[req.sport_id].is_deleted
    /\ \E k \in DOMAIN mappings : mappings[k].sport_id = req.sport_id
    /\ \E k \in DOMAIN configs : configs[k].sport_id = req.sport_id

---------------------------------------------------------------------------
(* Registration of a single sport.                                         *)

\* C24: register_sport(tenant_id, request) returns Conflict (400) if a
\* mapping for the pair exists, NotFound (404) if the tenant or the sport is
\* absent or soft-deleted, and otherwise creates exactly one mapping row for
\* the pair with the requested status (active by default) and returns it.
C24_RegisterSport ==
    [][req'.op = "register_sport" =>
          LET T == req'.tenant_id
              S == req'.request.sport_id
          IN  IF MappingsOf(mappings, T, S) # {}
              THEN resp'.status = 400 /\ UNCHANGED store
              ELSE IF ~Live(tenants, T) \/ ~Live(sports, S)
              THEN resp'.status = 404 /\ UNCHANGED store
              ELSE /\ resp'.status = 201
                   /\ Cardinality(Added(mappings, mappings')) = 1
                   /\ \A k \in Added(mappings, mappings') :
                         /\ mappings'[k].tenant_id = T
                         /\ mappings'[k].sport_id = S
                         /\ mappings'[k].status =
                               IF req'.request.status = None THEN "active"
                               ELSE req'.request.status
                         /\ resp'.items = {mappings'[k]}]_vars

\* C24, the Conflict outcome alone: with exactly one mapping row for the
\* pair register_sport returns 400 and changes nothing
C24_Conflict ==
    [][(/\ req'.op = "register_sport"
        /\ Cardinality(MappingsOf(mappings, req'.tenant_id, req'.request.sport_id)) = 1)
          => resp'.status = 400 /\ UNCHANGED store]_vars

---------------------------------------------------------------------------
(* Soft deletion is permanent.                                             *)

\* the soft-deleted rows of a table are in the next table, unchanged
Frozen(old, new) == \A i \in SoftDeleted(old) : i \in DOMAIN new /\ new[i] = old[i]

\* C25: once a Tenant or Sport row is soft-deleted no operation changes or
\* removes it: an update, a soft delete and a hard delete of it return 404,
\* and a create with its code, or a rename of another row to its code,
\* returns 400.
C25_SoftDeletePermanent ==
    [][/\ Frozen(tenants, tenants') /\ Frozen(sports, sports')
       /\ (/\ req'.op \in {"update_tenant", "delete_tenant"}
           /\ req'.tenant_id \in SoftDeleted(tenants)
           /\ req'.op = "update_tenant" => TenantUpdate(req'.body).ok)
             => resp'.status = 404
       /\ (/\ req'.op \in {"update_sport", "delete_sport"}
           /\ req'.sport_id \in SoftDeleted(sports)
           /\ req'.op = "update_sport" => SportUpdate(req'.body).ok)
             => resp'.status = 404
       /\ (/\ req'.op = "create_tenant"
           /\ HoldingTenantCode(tenants, req'.body.tenant_code) \cap SoftDeleted(tenants) # {})
             => resp'.status = 400
       /\ (/\ req'.op = "create_sport"
           /\ HoldingSportCode(sports, req'.body.sport_code) \cap SoftDeleted(sports) # {})
             => resp'.status = 400
       /\ (/\ RenamesTenant(req')
           /\ OthersHoldingTenantCode(req'.body.tenant_code, req'.tenant_id)
                 \cap SoftDeleted(tenants) # {})
             => resp'.status = 400
       /\ (/\ RenamesSport(req')
           /\ OthersHoldingSportCode(req'.body.sport_code, req'.sport_id)
                 \cap SoftDeleted(sports) # {})
             => resp'.status = 400]_vars

\* a hard delete of a soft-deleted tenant was answered 404 and the row is
\* still there, and a sport is soft-deleted as well
C25_Witness ==
    /\ req.op = "delete_tenant" /\ ~req.soft_delete
    /\ resp.status = 404
    /\ req.tenant_id \in SoftDeleted(tenants)
    /\ SoftDeleted(sports) # {}

---------------------------------------------------------------------------
(* Referential integrity.                                                  *)

\* C26: in every reachable state, under any interleaving of requests, every
\* mapping row references a Tenant row and a Sport row that are in the
\* store, and every config row references a Sport row that is in the store
\* (the referenced rows may be soft-deleted).
C26_ReferentialIntegrity ==
    /\ \A k \in DOMAIN mappings :
          /\ mappings[k].tenant_id \in DOMAIN tenants
          /\ mappings[k].sport_id \in DOMAIN sports
    /\ \A k \in DOMAIN configs : configs[k].sport_id \in DOMAIN sports

\* a hard delete of a sport that mapping or config rows reference was
\* refused, with a mapping row and a config row in the store and the
\* tenant of a mapping soft-deleted
C26_Witness ==
    /\ req.op = "delete_sport" /\ ~req.soft_delete /\ resp.status = 500
    /\ configs # <<>>
    /\ \E k \in DOMAIN mappings : tenants[mappings[k].tenant_id].is_deleted

---------------------------------------------------------------------------
(* Register requests racing with deletes.                                  *)

\* C28: under any interleaving of a bulk-register request with tenant and
\* sport deletes, when the request commits its mapping rows the tenant and
\* every mapped sport exist and are not soft-deleted.
C28_LiveAtCommit ==
    [][\A w \in Workers :
          (/\ inflight[w].pc = "bulk_create"
           /\ inflight'[w].pc = "idle"
           /\ inflight'[w].status = 201) =>
              /\ Live(tenants, inflight[w].tenant_id)
              /\ \A a \in Requested(inflight[w].request) : Live(sports, a)]_vars

---------------------------------------------------------------------------
(* Registering again after an unregister.                                  *)

\* the requested sports whose mapping for the tenant is inactive
Unregistered(tenant_id, request) ==
    {a \in Requested(request) :
        \E k \in MappingsOf(mappings, tenant_id, a) : mappings[k].status = "inactive"}

\* the status of a mapping row changes only in a mapping update of its pair
StatusOnlyByUpdate ==
    \A k \in DOMAIN mappings :
        (k \in DOMAIN mappings' /\ mappings'[k].status # mappings[k].status) =>
            /\ req'.op = "update_sport_mapping"
            /\ req'.tenant_id = mappings[k].tenant_id
            /\ req'.sport_id = mappings[k].sport_id

\* C27 as stated: once the mapping of (T, S) is inactive, every later
\* bulk_register_sports for T that includes S returns Conflict (400) and
\* creates no row, and the pair becomes active again only through a mapping
\* update.
C27_ConflictAsStated ==
    [][/\ (req'.op = "register_sports"
             /\ Unregistered(req'.tenant_id, req'.request) # {})
           => resp'.status = 400 /\ UNCHANGED store
       /\ StatusOnlyByUpdate]_vars

\* C27, amended: such a request creates no row and returns Conflict (400)
\* when the tenant and every requested sport exist and are not
\* soft-deleted, NotFound (404) otherwise; the status of a mapping changes
\* only through a mapping update of its pair.
C27_InactiveStillMapped ==
    [][/\ (req'.op = "register_sports"
             /\ Unregistered(req'.tenant_id, req'.request) # {})
           => /\ UNCHANGED store
              /\ resp'.status =
                    IF /\ Live(tenants, req'.tenant_id)
                       /\ \A a \in Requested(req'.request) : Live(sports, a)
                    THEN 400 ELSE 404
       /\ StatusOnlyByUpdate]_vars

\* a register request for a pair whose mapping is inactive was answered 400
C27_Witness ==
    /\ req.op = "register_sports"
    /\ resp.status = 400
    /\ Unregistered(req.tenant_id, req.request) # {}
    /\ \A a \in Requested(req.request) :
          \A k \in MappingsOf(mappings, req.tenant_id, a) : mappings[k].status = "inactive"

---------------------------------------------------------------------------
(* Concurrent creates with one code.                                      *)

\* the normalized code a create request carries
CodeOf(w) ==
    IF inflight[w].kind = "tenant" THEN inflight[w].obj_in.tenant_code
    ELSE inflight[w].obj_in.sport_code

\* two finished create requests with one normalized code, both begun while no
\* row held it
Contenders(w, v) ==
    /\ w # v
    /\ inflight[w].pc = "idle" /\ inflight[v].pc = "idle"
    /\ "status" \in DOMAIN inflight[w] /\ "status" \in DOMAIN inflight[v]
    /\ inflight[w].status \in {201, 400, 500} /\ inflight[v].status \in {201, 400, 500}
    /\ inflight[w].kind = inflight[v].kind
    /\ CodeOf(w) = CodeOf(v)
    /\ inflight[w].free /\ inflight[v].free

\* C29: of two concurrent create requests with the same normalized tenant_code
\* (or sport_code), whatever the interleaving, at most one row with the code is
\* stored and exactly one request succeeds; the other fails with 400 from the
\* lookup or with the uniqueness violation, 500, which stores nothing.
C29_OneWinner ==
    /\ \A i, j \in DOMAIN tenants :
          tenants[i].tenant_code = tenants[j].tenant_code => i = j
    /\ \A i, j \in DOMAIN sports :
          sports[i].sport_code = sports[j].sport_code => i = j
    /\ \A w, v \in Workers :
          (Contenders(w, v) /\ inflight[w].status = 201) =>
              inflight[v].status \in {400, 500}
    /\ \A w, v \in Workers :
          Contenders(w, v) => inflight[w].status = 201 \/ inflight[v].status = 201

\* both requests passed the lookup; the second insert met the unique constraint
C29_Witness ==
    \E w, v \in Workers :
        /\ Contenders(w, v)
        /\ inflight[w].kind = "tenant"
        /\ inflight[w].status = 201
        /\ inflight[v].status = 500
        /\ Cardinality({i \in DOMAIN tenants : tenants[i].tenant_code = CodeOf(w)}) = 1

---------------------------------------------------------------------------
(* The size of a list page.                                                *)

\* the page of a list response has min(limit, max(0, total - skip)) items and
\* has_next_page tells whether a matching row lies beyond it
PageOf(matching) ==
    /\ resp.status = 200
    /\ Cardinality(resp.items)
         = Min(req.query_params.limit,
               Max(0, Cardinality(matching) - req.query_params.skip))
    /\ resp.has_next_page
         <=> req.query_params.skip + Cardinality(resp.items) < Cardinality(matching)

\* C30 (sports): a sport list returns min(limit, max(0, total_count - skip))
\* items, and has_next_page is true exactly when a matching sport lies beyond
\* the returned page.
C30_SportPageSize ==
    req.op = "get_sports" => PageOf(SportsMatching(req.query_params))

\* C30: a tenant or sport list, run with no concurrent writes, returns
\* min(limit, max(0, total_count - skip)) items, so has_next_page is true
\* exactly when at least one matching row lies beyond the returned page.
C30_PageSize ==
    /\ C30_SportPageSize
    /\ req.op = "get_tenants" => PageOf(TenantsMatching(req.query_params))

====
